---- MODULE Spec2Model ----
(***************************************************************************)
(* Model of the table-tennis league application (src/app.py): the match    *)
(* table, the two settings, score reporting and the playoff bracket engine *)
(* (bracket creation, admin round advancement, automatic advancement).     *)
(*                                                                         *)
(* SQL NULL / Python None is the integer NULL; every nullable column holds *)
(* only non-negative values otherwise.  Rows of the matches table are      *)
(* records, the table is a set of rows with distinct ids.                  *)
(***************************************************************************)
EXTENDS Integers, Sequences, FiniteSets, TLC

VARIABLES players, matches, current_playoff_round, current_week,
          next_match_id

vars == <<players, matches, current_playoff_round, current_week,
          next_match_id>>

----------------------------------------------------------------------------
(* Bounds of the model                                                     *)

MinPlayers == 2
MaxPlayers == 8
\* a bracket is (re)built only while the next match id is at most this value
MaxRebuildId == 3
\* a match is deleted only while fewer than this many ids are missing from
\* the table
MaxDeleted == 2

(* Program constants                                                       *)
MAX_WEEKS == 8
MAX_GAMES == 3

NULL == -1
\* raw form fields: an empty input and an input that int() rejects
BLANK == -100
NOTINT == -200

----------------------------------------------------------------------------
(* Python helpers                                                          *)

\* truthiness of an optional integer: None and 0 are falsy
Truthy(x) == x # NULL /\ x # 0

RECURSIVE SumSeq(_)
SumSeq(s) == IF s = <<>> THEN 0 ELSE Head(s) + SumSeq(Tail(s))

\* n & (n - 1) == 0 for n >= 1
RECURSIVE IsPowerOfTwo(_)
IsPowerOfTwo(n) ==
    IF n = 1 THEN TRUE
    ELSE IF n % 2 = 1 THEN FALSE
    ELSE IsPowerOfTwo(n \div 2)

\* 1 << (n.bit_length() - 1) for n >= 1
RECURSIVE HighBit(_)
HighBit(n) == IF n <= 1 THEN 1 ELSE 2 * HighBit(n \div 2)

\* rows of a SELECT ... ORDER BY id
RECURSIVE OrderById(_)
OrderById(S) ==
    IF S = {} THEN <<>>
    ELSE LET m == CHOOSE x \in S : \A y \in S : x.id <= y.id
         IN  <<m>> \o OrderById(S \ {m})

SeqToSet(s) == {s[i] : i \in DOMAIN s}

----------------------------------------------------------------------------
(* Settings                                                                *)

get_current_week(cw) == IF cw < 1 THEN 1 ELSE cw

get_current_playoff_round(cpr) == cpr

----------------------------------------------------------------------------
(* Outcome evaluator                                                       *)

extract_game_scores(m) ==
    SelectSeq(m.games, LAMBDA g : g[1] # NULL /\ g[2] # NULL)

aggregate_match_points(m) ==
    LET scores == extract_game_scores(m)
    IN  IF scores # <<>>
        THEN << SumSeq([i \in DOMAIN scores |-> scores[i][1]]),
                SumSeq([i \in DOMAIN scores |-> scores[i][2]]) >>
        ELSE << IF Truthy(m.score1) THEN m.score1 ELSE 0,
                IF Truthy(m.score2) THEN m.score2 ELSE 0 >>

calculate_game_wins(scores) ==
    << Cardinality({i \in DOMAIN scores : scores[i][1] > scores[i][2]}),
       Cardinality({i \in DOMAIN scores : scores[i][2] > scores[i][1]}) >>

\* determine_winner comparing the aggregate scores before the game wins
determine_winner_aggregate_first(m) ==
    IF m.player2_id = NULL THEN m.player1_id
    ELSE IF m.reported = 0 THEN NULL
    ELSE IF Truthy(m.double_forfeit) THEN NULL
    ELSE IF m.score1 # NULL /\ m.score2 # NULL /\ m.score1 # m.score2
         THEN IF m.score1 > m.score2 THEN m.player1_id ELSE m.player2_id
         ELSE LET w == calculate_game_wins(extract_game_scores(m))
              IN  IF w[1] = w[2] THEN NULL
                  ELSE IF w[1] > w[2] THEN m.player1_id
                  ELSE m.player2_id

determine_winner(m) ==
    IF m.player2_id = NULL THEN m.player1_id
    ELSE IF m.reported = 0 THEN NULL
    ELSE IF Truthy(m.double_forfeit) THEN NULL
    ELSE LET scores == extract_game_scores(m)
         IN  IF scores # <<>>
             THEN LET w == calculate_game_wins(scores)
                  IN  IF w[1] = w[2] THEN NULL
                      ELSE IF w[1] > w[2] THEN m.player1_id
                      ELSE m.player2_id
             ELSE IF m.score1 = NULL \/ m.score2 = NULL \/ m.score1 = m.score2
                  THEN NULL
                  ELSE IF m.score1 > m.score2 THEN m.player1_id
                  ELSE m.player2_id

----------------------------------------------------------------------------
(* Score input                                                             *)

\* Result of parse_best_of_three_scores: [ok, scores]; ok = FALSE models
\* the raised ValueError.
RECURSIVE parse_from(_, _, _)
parse_from(form, idx, acc) ==
    IF idx > MAX_GAMES THEN [ok |-> TRUE, scores |-> acc]
    ELSE LET raw1 == form[idx][1]
             raw2 == form[idx][2]
         IN  IF raw1 = BLANK /\ raw2 = BLANK
                 THEN parse_from(form, idx + 1, acc)
             ELSE IF raw1 = BLANK \/ raw2 = BLANK
                 THEN [ok |-> FALSE, scores |-> <<>>]
             ELSE IF raw1 = NOTINT \/ raw2 = NOTINT
                 THEN [ok |-> FALSE, scores |-> <<>>]
             ELSE IF raw1 < 0 \/ raw2 < 0
                 THEN [ok |-> FALSE, scores |-> <<>>]
             ELSE IF raw1 > 99 \/ raw2 > 99
                 THEN [ok |-> FALSE, scores |-> <<>>]
             ELSE IF raw1 = raw2
                 THEN [ok |-> FALSE, scores |-> <<>>]
             ELSE parse_from(form, idx + 1, Append(acc, <<raw1, raw2>>))

parse_best_of_three_scores(form) == parse_from(form, 1, <<>>)

\* validate_best_of_three without its limit of two wins per player
validate_best_of_three_allows_sweep(scores) ==
    IF Len(scores) < 2 THEN FALSE
    ELSE LET w == calculate_game_wins(scores)
         IN  IF w[1] = w[2] THEN FALSE
             ELSE IF w[1] < 2 /\ w[2] < 2 THEN FALSE
             ELSE TRUE

\* TRUE when validate_best_of_three returns, FALSE when it raises
validate_best_of_three(scores) ==
    IF Len(scores) < 2 THEN FALSE
    ELSE LET w == calculate_game_wins(scores)
         IN  IF w[1] > 2 \/ w[2] > 2 THEN FALSE
             ELSE IF w[1] = w[2] THEN FALSE
             ELSE IF w[1] < 2 /\ w[2] < 2 THEN FALSE
             ELSE IF w[1] >= 2 /\ w[2] >= 2 THEN FALSE
             ELSE TRUE

\* game_scores + [(None, None)] * (MAX_GAMES - len(game_scores))
PadGames(scores) ==
    [i \in 1..MAX_GAMES |-> IF i <= Len(scores) THEN scores[i]
                            ELSE <<NULL, NULL>>]

NoGames == [i \in 1..MAX_GAMES |-> <<NULL, NULL>>]

----------------------------------------------------------------------------
(* Rows of the matches table                                               *)

\* an INSERT that numbers every playoff row 1
PlayoffRow_numbered_one(id, p1, p2, round, number) ==
    [id |-> id, week |-> NULL, player1_id |-> p1, player2_id |-> p2,
     score1 |-> NULL, score2 |-> NULL, games |-> NoGames,
     reported |-> 0, double_forfeit |-> 0,
     playoff |-> 1, playoff_round |-> round, match_number |-> 1]

\* INSERT of a playoff row by create_playoff_bracket/create_first_round_matches
\* (score NULL, reported 0; double_forfeit takes the column default 0)
PlayoffRow(id, p1, p2, round, number) ==
    [id |-> id, week |-> NULL, player1_id |-> p1, player2_id |-> p2,
     score1 |-> NULL, score2 |-> NULL, games |-> NoGames,
     reported |-> 0, double_forfeit |-> 0,
     playoff |-> 1, playoff_round |-> round, match_number |-> number]

PlayoffMatches(ms) == {m \in ms : m.playoff = 1}

\* the rows SELECT ... WHERE playoff = 1 AND playoff_round = r yields
get_round_matches_set(ms, round_number) ==
    {m \in ms : m.playoff = 1 /\ m.playoff_round = round_number}

list_round_numbers(ms) == {m.playoff_round : m \in PlayoffMatches(ms)}

get_round_matches(ms, round_number) ==
    OrderById({m \in ms : m.playoff = 1 /\ m.playoff_round = round_number})

\* round_is_complete without its test of the reported flag
round_is_complete_skips_check(ms_seq) == TRUE

round_is_complete(ms_seq) ==
    \A i \in DOMAIN ms_seq :
        ms_seq[i].player2_id = NULL \/ ms_seq[i].reported # 0

collect_winners(ms_seq) ==
    LET ws == [i \in DOMAIN ms_seq |-> determine_winner(ms_seq[i])]
    IN  SelectSeq(ws, Truthy)

next_round_exists(ms, round_number) ==
    \E m \in ms : m.playoff = 1 /\ m.playoff_round = round_number

----------------------------------------------------------------------------
(* Standings                                                               *)

ZeroStats(p) ==
    [player_id |-> p, first_name |-> players[p].first_name,
     last_name |-> players[p].last_name,
     wins |-> 0, losses |-> 0, point_diff |-> 0, points_scored |-> 0]

\* apply_match_to_stats without its double-forfeit branch: the forfeit is
\* scored as the 0-0 match its columns hold
apply_match_to_stats_forfeit_scored(stats, m) ==
    IF m.player1_id \notin DOMAIN stats \/ m.player2_id \notin DOMAIN stats
    THEN stats
    ELSE LET a == m.player1_id
             b == m.player2_id
             result(scores, tot) ==
                 IF scores # <<>>
                 THEN IF calculate_game_wins(scores)[1] > calculate_game_wins(scores)[2]
                      THEN [stats EXCEPT ![a].wins = @ + 1, ![b].losses = @ + 1,
                                         ![a].points_scored = @ + tot[1],
                                         ![b].points_scored = @ + tot[2],
                                         ![a].point_diff = @ + (tot[1] - tot[2]),
                                         ![b].point_diff = @ + (tot[2] - tot[1])]
                      ELSE [stats EXCEPT ![b].wins = @ + 1, ![a].losses = @ + 1,
                                         ![a].points_scored = @ + tot[1],
                                         ![b].points_scored = @ + tot[2],
                                         ![a].point_diff = @ + (tot[1] - tot[2]),
                                         ![b].point_diff = @ + (tot[2] - tot[1])]
                 ELSE stats
         IN  result(extract_game_scores(m), aggregate_match_points(m))

\* apply_match_to_stats crediting the win but not the loss of a played match
apply_match_to_stats_winner_only(stats, m) ==
    IF m.player1_id \notin DOMAIN stats \/ m.player2_id \notin DOMAIN stats
    THEN stats
    ELSE LET a == m.player1_id
             b == m.player2_id
         IN
         IF Truthy(m.double_forfeit)
         THEN [stats EXCEPT ![a].losses = @ + 1, ![b].losses = @ + 1]
         ELSE LET points(tot) ==
                      [stats EXCEPT
                         ![a].points_scored = @ + tot[1],
                         ![b].points_scored = @ + tot[2],
                         ![a].point_diff = @ + (tot[1] - tot[2]),
                         ![b].point_diff = @ + (tot[2] - tot[1])]
                  p1wins(s1) == [s1 EXCEPT ![a].wins = @ + 1]
                  p2wins(s1) == [s1 EXCEPT ![b].wins = @ + 1]
                  result(scores, tot, s1) ==
                      IF scores # <<>>
                      THEN LET w == calculate_game_wins(scores)
                           IN  IF w[1] > w[2] THEN p1wins(s1) ELSE p2wins(s1)
                      ELSE IF tot[1] # tot[2]
                           THEN IF tot[1] > tot[2] THEN p1wins(s1)
                                ELSE p2wins(s1)
                           ELSE s1
                  scored(scores, tot) == result(scores, tot, points(tot))
              IN  scored(extract_game_scores(m), aggregate_match_points(m))

\* stats is a function player id -> stat row; a match whose participant has
\* no stat row is skipped
apply_match_to_stats(stats, m) ==
    IF m.player1_id \notin DOMAIN stats \/ m.player2_id \notin DOMAIN stats
    THEN stats
    ELSE LET a == m.player1_id
             b == m.player2_id
         IN
         IF Truthy(m.double_forfeit)
         THEN [stats EXCEPT ![a].losses = @ + 1, ![b].losses = @ + 1]
         ELSE LET points(tot) ==
                      [stats EXCEPT
                         ![a].points_scored = @ + tot[1],
                         ![b].points_scored = @ + tot[2],
                         ![a].point_diff = @ + (tot[1] - tot[2]),
                         ![b].point_diff = @ + (tot[2] - tot[1])]
                  p1wins(s1) == [s1 EXCEPT ![a].wins = @ + 1,
                                           ![b].losses = @ + 1]
                  p2wins(s1) == [s1 EXCEPT ![b].wins = @ + 1,
                                           ![a].losses = @ + 1]
                  result(scores, tot, s1) ==
                      IF scores # <<>>
                      THEN LET w == calculate_game_wins(scores)
                           IN  IF w[1] > w[2] THEN p1wins(s1) ELSE p2wins(s1)
                      ELSE IF tot[1] # tot[2]
                           THEN IF tot[1] > tot[2] THEN p1wins(s1)
                                ELSE p2wins(s1)
                           ELSE s1
                  scored(scores, tot) == result(scores, tot, points(tot))
              IN  scored(extract_game_scores(m), aggregate_match_points(m))

fetch_ranked_matches(ms, include_playoffs) ==
    {m \in ms : /\ m.reported = 1
                /\ (include_playoffs \/ m.playoff = 0)
                /\ m.player1_id # NULL
                /\ m.player2_id # NULL}

RECURSIVE FoldStats(_, _)
FoldStats(stats, ms_seq) ==
    IF ms_seq = <<>> THEN stats
    ELSE FoldStats(apply_match_to_stats(stats, Head(ms_seq)), Tail(ms_seq))

\* the sort key with points_scored before point_diff
RankBefore_points_first(x, y) ==
    IF x.wins # y.wins THEN x.wins > y.wins
    ELSE IF x.points_scored # y.points_scored
        THEN x.points_scored > y.points_scored
    ELSE IF x.point_diff # y.point_diff THEN x.point_diff > y.point_diff
    ELSE IF x.last_name # y.last_name THEN x.last_name < y.last_name
    ELSE IF x.first_name # y.first_name THEN x.first_name < y.first_name
    ELSE x.player_id < y.player_id

\* sort key (-wins, -point_diff, -points_scored, last_name, first_name);
\* rows with equal keys keep the order of the players query, which the
\* model takes to be by id
RankBefore(x, y) ==
    IF x.wins # y.wins THEN x.wins > y.wins
    ELSE IF x.point_diff # y.point_diff THEN x.point_diff > y.point_diff
    ELSE IF x.points_scored # y.points_scored
        THEN x.points_scored > y.points_scored
    ELSE IF x.last_name # y.last_name THEN x.last_name < y.last_name
    ELSE IF x.first_name # y.first_name THEN x.first_name < y.first_name
    ELSE x.player_id < y.player_id

\* sorted(stats.values(), key = ...) as a sequence of stat rows
RECURSIVE SortStats(_, _)
SortStats(ids, stats) ==
    IF ids = {} THEN <<>>
    ELSE LET first == CHOOSE p \in ids :
                         \A q \in ids \ {p} : RankBefore(stats[p], stats[q])
         IN  <<stats[first]>> \o SortStats(ids \ {first}, stats)

calculate_rankings(ms, include_playoffs) ==
    LET approved == DOMAIN players
        stats == FoldStats([p \in approved |-> ZeroStats(p)],
                           OrderById(fetch_ranked_matches(ms, include_playoffs)))
        ranked(ordered) ==
            [i \in DOMAIN ordered |->
                [player_id |-> ordered[i].player_id, rank |-> i,
                 wins |-> ordered[i].wins, losses |-> ordered[i].losses,
                 point_diff |-> ordered[i].point_diff,
                 points_scored |-> ordered[i].points_scored,
                 first_name |-> ordered[i].first_name,
                 last_name |-> ordered[i].last_name]]
    IN  ranked(SortStats(approved, stats))

----------------------------------------------------------------------------
(* Bracket creation                                                        *)

\* generate_play_in_matches_metadata pairing the play-in seeds with the
\* opponents in ascending order (the [::-1] left out)
generate_play_in_matches_metadata_unreversed(seeds, target_bracket_size, num_byes) ==
    LET num_players == Len(seeds)
        num_play_in_games == num_players - target_bracket_size
    IN  IF num_play_in_games <= 0 THEN <<>>
        ELSE [j \in 1..num_play_in_games |->
                LET seed_no == target_bracket_size + 1 - j
                    zip_index == seed_no - num_byes
                    opponent_seed_no == target_bracket_size + zip_index
                IN  [target_seed |-> seed_no,
                     player1_id |-> seeds[seed_no],
                     player2_id |-> seeds[opponent_seed_no]]]

\* generate_play_in_matches_metadata keyed by the seed of the opponent
generate_play_in_matches_metadata_opponent_seed(seeds, target_bracket_size, num_byes) ==
    LET num_players == Len(seeds)
        num_play_in_games == num_players - target_bracket_size
    IN  IF num_play_in_games <= 0 THEN <<>>
        ELSE [j \in 1..num_play_in_games |->
                LET seed_no == target_bracket_size + 1 - j
                    zip_index == seed_no - num_byes
                    opponent_seed_no == num_players + 1 - zip_index
                IN  [target_seed |-> opponent_seed_no,
                     player1_id |-> seeds[seed_no],
                     player2_id |-> seeds[opponent_seed_no]]]

\* The list returned by generate_play_in_matches_metadata: the pairing
\* (seed_no, opponent_seed_no) of zip(num_byes+1..target, reversed
\* target+1..num_players), sorted by target_seed descending.
generate_play_in_matches_metadata(seeds, target_bracket_size, num_byes) ==
    LET num_players == Len(seeds)
        num_play_in_games == num_players - target_bracket_size
    IN  IF num_play_in_games <= 0 THEN <<>>
        ELSE [j \in 1..num_play_in_games |->
                LET seed_no == target_bracket_size + 1 - j
                    zip_index == seed_no - num_byes
                    opponent_seed_no == num_players + 1 - zip_index
                IN  [target_seed |-> seed_no,
                     player1_id |-> seeds[seed_no],
                     player2_id |-> seeds[opponent_seed_no]]]

\* create_first_round_matches pairing neighbours in the seed list
create_first_round_matches_neighbours(first_id, seeds, playoff_round) ==
    LET pair_count == Len(seeds) \div 2
    IN  {PlayoffRow(first_id + slot, seeds[2 * slot + 1],
                    seeds[2 * slot + 2], playoff_round, slot + 1) :
            slot \in 0..(pair_count - 1)}

\* rows inserted by create_first_round_matches, ids from first_id upwards
create_first_round_matches(first_id, seeds, playoff_round) ==
    LET pair_count == Len(seeds) \div 2
    IN  {PlayoffRow(first_id + slot, seeds[slot + 1],
                    seeds[Len(seeds) - slot], playoff_round, slot + 1) :
            slot \in 0..(pair_count - 1)}

\* the round-1 loop with the bye test of slot 2 off by one
create_round_one_slots_off_by_one(first_id, seeds, target_bracket_size, num_byes) ==
    {LET seed1 == match_index
         seed2 == target_bracket_size + 1 - match_index
     IN  PlayoffRow(first_id + match_index - 1,
            IF seed1 <= num_byes THEN seeds[seed1] ELSE NULL,
            IF seed2 < num_byes THEN seeds[seed2] ELSE NULL,
            1, match_index) :
        match_index \in 1..(target_bracket_size \div 2)}

\* rows inserted by the round-1 loop of create_playoff_bracket for a field
\* that is not a power of two, ids from first_id upwards
create_round_one_slots(first_id, seeds, target_bracket_size, num_byes) ==
    LET main_bracket_first_round_matches == target_bracket_size \div 2
    IN  {LET seed1 == match_index
             seed2 == target_bracket_size + 1 - match_index
         IN  PlayoffRow(first_id + match_index - 1,
                IF seed1 <= num_byes THEN seeds[seed1] ELSE NULL,
                IF seed2 <= num_byes THEN seeds[seed2] ELSE NULL,
                1, match_index) :
            match_index \in 1..main_bracket_first_round_matches}

\* a rebuild that spares the playoff matches already reported
delete_playoff_matches_unreported(ms) == {m \in ms : m.playoff # 1 \/ m.reported = 1}

\* DELETE FROM matches WHERE playoff = 1: the rows that stay
delete_playoff_matches(ms) == {m \in ms : m.playoff # 1}

\* a seeding that ranks on the table before the DELETE, playoffs included
bracket_rankings_with_playoffs(ms, kept) == calculate_rankings(ms, TRUE)

\* rankings = calculate_rankings(db, include_playoffs=False), after the
\* DELETE: ms is the table before it, kept the table after it
bracket_rankings(ms, kept) == calculate_rankings(kept, FALSE)

\* The state create_playoff_bracket leaves: [ms, next_id, round].
create_playoff_bracket(ms, next_id) ==
    LET kept == delete_playoff_matches(ms)
        seeds_of(rankings) ==
            [i \in DOMAIN rankings |-> rankings[i].player_id]
        play_in_bracket(seeds, target_bracket_size, num_byes, meta) ==
            LET play_in_rows ==
                    {PlayoffRow(next_id + j - 1, meta[j].player1_id,
                                meta[j].player2_id, 0, meta[j].target_seed) :
                        j \in DOMAIN meta}
                round1_first_id == next_id + Len(meta)
                round1_rows == create_round_one_slots(
                                   round1_first_id, seeds,
                                   target_bracket_size, num_byes)
            IN  [ms |-> kept \cup play_in_rows \cup round1_rows,
                 next_id |-> round1_first_id + (target_bracket_size \div 2),
                 round |-> 0]
        sized(seeds, target_bracket_size, num_byes) ==
            play_in_bracket(seeds, target_bracket_size, num_byes,
                generate_play_in_matches_metadata(
                    seeds, target_bracket_size, num_byes))
        bracket(seeds, num_players) ==
            IF num_players < 2
            THEN [ms |-> kept, next_id |-> next_id, round |-> -1]
            ELSE IF IsPowerOfTwo(num_players)
            THEN [ms |-> kept \cup
                           create_first_round_matches(next_id, seeds, 1),
                  next_id |-> next_id + (num_players \div 2),
                  round |-> 1]
            ELSE sized(seeds, HighBit(num_players),
                       2 * HighBit(num_players) - num_players)
        seeded(seeds) == bracket(seeds, Len(seeds))
    IN  seeded(seeds_of(bracket_rankings(ms, kept)))

----------------------------------------------------------------------------
(* Advancement helpers                                                     *)

\* UPDATE matches SET score1 = 0, score2 = 0 for reported playoff byes whose
\* aggregate is missing
auto_resolve_byes(ms) ==
    {IF /\ m.playoff = 1 /\ m.player2_id = NULL /\ m.reported = 1
        /\ (m.score1 = NULL \/ m.score2 = NULL)
     THEN [m EXCEPT !.score1 = 0, !.score2 = 0]
     ELSE m : m \in ms}

\* create_next_round inserting the trailing bye like any other match
create_next_round_bye_unreported(ms, next_id, winners, round_number) ==
    LET count == (Len(winners) + 1) \div 2
        rows ==
          {LET idx == 2 * (k - 1)
               p1 == winners[idx + 1]
               p2 == IF idx + 1 < Len(winners) THEN winners[idx + 2] ELSE NULL
           IN  PlayoffRow(next_id + k - 1, p1, p2, round_number,
                          (idx \div 2) + 1) :
             k \in 1..count}
    IN  [ms |-> auto_resolve_byes(ms \cup rows), next_id |-> next_id + count]

\* rows inserted by create_next_round for the winners list, then
\* auto_resolve_byes; [ms, next_id]
create_next_round(ms, next_id, winners, round_number) ==
    LET count == (Len(winners) + 1) \div 2
        rows ==
          {LET idx == 2 * (k - 1)
               p1 == winners[idx + 1]
               p2 == IF idx + 1 < Len(winners) THEN winners[idx + 2] ELSE NULL
               is_bye == (p2 = NULL)
           IN  [PlayoffRow(next_id + k - 1, p1, p2, round_number,
                           (idx \div 2) + 1)
                  EXCEPT !.score1 = IF is_bye THEN 0 ELSE NULL,
                         !.score2 = IF is_bye THEN 0 ELSE NULL,
                         !.reported = IF is_bye THEN 1 ELSE 0] :
             k \in 1..count}
    IN  [ms |-> auto_resolve_byes(ms \cup rows), next_id |-> next_id + count]

\* seed_to_winner of the round-0 branch: target seed -> winner, the last
\* match (by id) with that match_number deciding
seed_to_winner(round0_seq) ==
    LET table(decided) ==
            [t \in {round0_seq[i].match_number : i \in decided} |->
                determine_winner(round0_seq[
                    CHOOSE i \in decided :
                        /\ round0_seq[i].match_number = t
                        /\ \A j \in decided :
                              round0_seq[j].match_number = t => j <= i])]
    IN  table({i \in DOMAIN round0_seq :
                  /\ Truthy(determine_winner(round0_seq[i]))
                  /\ round0_seq[i].match_number # NULL})

\* the round-1 rows after the seed-slot fill of the round-0 branch
fill_round_one(ms, s2w) ==
    LET round_1_matches == {m \in ms : m.playoff = 1 /\ m.playoff_round = 1}
        pair_count == Cardinality(round_1_matches)
        target_bracket_size == pair_count * 2
        filled(m) ==
            IF ~Truthy(m.match_number) THEN m
            ELSE LET seed1 == m.match_number
                     seed2 == target_bracket_size + 1 - m.match_number
                 IN  [m EXCEPT
                        !.player1_id =
                            IF m.player1_id = NULL /\ seed1 \in DOMAIN s2w
                            THEN s2w[seed1] ELSE @,
                        !.player2_id =
                            IF m.player2_id = NULL /\ seed2 \in DOMAIN s2w
                            THEN s2w[seed2] ELSE @]
    IN  {IF m \in round_1_matches THEN filled(m) ELSE m : m \in ms}

\* the else-branch of admin_advance_playoff_round: walk next_matches in id
\* order and hand the winners out to open slots; i indexes next_seq, wi is
\* the number of winners already consumed; StopIteration breaks the loop
RECURSIVE fill_next_round(_, _, _, _)
fill_next_round(next_seq, i, winners, wi) ==
    IF i > Len(next_seq) THEN <<>>
    ELSE LET m == next_seq[i]
         IN
         IF m.player1_id = NULL /\ wi >= Len(winners) THEN <<>>
         ELSE LET wi1 == IF m.player1_id = NULL THEN wi + 1 ELSE wi
                  m1 == IF m.player1_id = NULL
                        THEN [m EXCEPT !.player1_id = winners[wi + 1]] ELSE m
              IN  IF m.player2_id = NULL /\ wi1 >= Len(winners)
                  THEN <<m1>>
                  ELSE LET wi2 == IF m.player2_id = NULL THEN wi1 + 1 ELSE wi1
                           m2 == IF m.player2_id = NULL
                                 THEN [m1 EXCEPT !.player2_id = winners[wi1 + 1]]
                                 ELSE m1
                       IN  <<m2>> \o fill_next_round(next_seq, i + 1, winners, wi2)

\* replace in ms the rows whose ids occur in the updated sequence
ApplyUpdates(ms, updated_seq) ==
    {IF \E i \in DOMAIN updated_seq : updated_seq[i].id = m.id
     THEN updated_seq[CHOOSE i \in DOMAIN updated_seq : updated_seq[i].id = m.id]
     ELSE m : m \in ms}

----------------------------------------------------------------------------
(* Manual advancement: the outcome of one POST /admin/advance_playoff_round *)
(* as [ms, next_id, round, flash]                                          *)

admin_advance_playoff_round(ms, next_id, cpr) ==
    LET current_round == get_current_playoff_round(cpr)
        same(msg) == [ms |-> ms, next_id |-> next_id, round |-> cpr,
                      flash |-> msg]
        play_in_filled(after) ==
            IF ~next_round_exists(ms, 1)
                THEN same("Round 1 bracket is missing.")
            ELSE IF after = ms
                THEN same("No available slots to fill with play-in winners.")
            ELSE [ms |-> after, next_id |-> next_id, round |-> 1,
                  flash |-> "Play-in winners advanced to Round 1!"]
        next_created(made, next_round) ==
            [ms |-> made.ms, next_id |-> made.next_id,
             round |-> next_round, flash |-> "Advanced to next round!"]
        next_filled(next_matches, winners, next_round) ==
            IF next_matches = <<>>
            THEN same("Next round bracket exists but contains no matches.")
            ELSE [ms |-> ApplyUpdates(ms,
                            fill_next_round(next_matches, 1, winners, 0)),
                  next_id |-> next_id, round |-> next_round,
                  flash |-> "Advanced to next round!"]
        advance(round_matches, winners) ==
            IF round_matches = <<>>
                THEN same("No matches found for the active playoff round.")
            ELSE IF ~round_is_complete(round_matches)
                THEN same("Cannot advance: match(es) are still unreported.")
            ELSE IF winners = <<>>
                THEN same(
                  "Cannot advance: No winners recorded in the current round.")
            ELSE IF Len(winners) = 1
                THEN [ms |-> ms, next_id |-> next_id, round |-> -1,
                      flash |-> "Tournament complete!"]
            ELSE IF current_round = 0
                THEN play_in_filled(
                         fill_round_one(ms, seed_to_winner(round_matches)))
            ELSE IF ~next_round_exists(ms, current_round + 1)
                THEN next_created(
                         create_next_round(ms, next_id, winners,
                                           current_round + 1),
                         current_round + 1)
            ELSE next_filled(get_round_matches(ms, current_round + 1),
                             winners, current_round + 1)
        rounded(round_matches) ==
            advance(round_matches, collect_winners(round_matches))
    IN
    IF current_round < 0 THEN same("Playoffs are not currently active.")
    ELSE rounded(get_round_matches(ms, current_round))

AdvanceFlashes ==
    {"Playoffs are not currently active.",
     "No matches found for the active playoff round.",
     "Cannot advance: match(es) are still unreported.",
     "Cannot advance: No winners recorded in the current round.",
     "Tournament complete!",
     "Round 1 bracket is missing.",
     "No available slots to fill with play-in winners.",
     "Play-in winners advanced to Round 1!",
     "Advanced to next round!",
     "Next round bracket exists but contains no matches."}

----------------------------------------------------------------------------
(* Score reporting: the outcome of one POST /match/<id> as [ms, flash]     *)

report_match(ms, cpr, cw, match_id, form) ==
    LET m == CHOOSE x \in ms : x.id = match_id
        same(msg) == [ms |-> ms, flash |-> msg]
        current_week_ == get_current_week(cw)
        parsed == parse_best_of_three_scores(form)
        game_scores == parsed.scores
        totals == << SumSeq([i \in DOMAIN game_scores |-> game_scores[i][1]]),
                     SumSeq([i \in DOMAIN game_scores |-> game_scores[i][2]]) >>
    IN
    IF m.player2_id = NULL THEN same("Byes do not require score reports.")
    ELSE IF Truthy(m.playoff) /\ get_current_playoff_round(cpr) < 0
        THEN same("Playoff reporting is currently closed.")
    ELSE IF Truthy(m.playoff) /\ m.playoff_round > get_current_playoff_round(cpr)
        THEN same("This playoff round is not open for reporting yet.")
    ELSE IF Truthy(m.week) /\ ~Truthy(m.playoff) /\ m.week > current_week_
        THEN same("This match is not yet open for reporting.")
    ELSE IF /\ Truthy(m.week) /\ ~Truthy(m.playoff)
            /\ (m.week < current_week_ \/ Truthy(m.double_forfeit))
        THEN same("Reporting for this match has closed.")
    ELSE IF ~parsed.ok \/ ~validate_best_of_three(game_scores)
        THEN same("Invalid score.")
    ELSE [ms |-> {IF x.id = match_id
                  THEN [x EXCEPT !.score1 = totals[1], !.score2 = totals[2],
                                 !.games = PadGames(game_scores),
                                 !.double_forfeit = 0, !.reported = 1]
                  ELSE x : x \in ms},
          flash |-> "Match score saved successfully."]

----------------------------------------------------------------------------
(* Automatic advancement (advance_playoff_winners)                         *)

MAX_RECURSION_DEPTH == 10

\* list_round_numbers as the ascending list the loop walks
RECURSIVE SortedSeq(_)
SortedSeq(S) ==
    IF S = {} THEN <<>>
    ELSE LET lo == CHOOSE x \in S : \A y \in S : x <= y
         IN  <<lo>> \o SortedSeq(S \ {lo})

\* legacy fallback of the round-0 branch: winners go to open round-1 slots
\* in id order; returns the updated rows
RECURSIVE fill_legacy(_, _, _, _)
fill_legacy(r1_seq, i, winners, winner_index) ==
    IF i > Len(r1_seq) THEN <<>>
    ELSE LET m == r1_seq[i]
             take1 == m.player1_id = NULL /\ winner_index < Len(winners)
             wi1 == IF take1 THEN winner_index + 1 ELSE winner_index
             m1 == IF take1 THEN [m EXCEPT !.player1_id = winners[winner_index + 1]]
                   ELSE m
             take2 == m.player2_id = NULL /\ wi1 < Len(winners)
             wi2 == IF take2 THEN wi1 + 1 ELSE wi1
             m2 == IF take2 THEN [m1 EXCEPT !.player2_id = winners[wi1 + 1]]
                   ELSE m1
         IN  <<m2>> \o fill_legacy(r1_seq, i + 1, winners, wi2)

\* one iteration of the loop body for round_number on st = [ms, next_id,
\* created_next_round]
advance_one_round(st, round_number) ==
    LET updated(after) ==
            IF after # st.ms
            THEN [st EXCEPT !.ms = after, !.created = TRUE]
            ELSE st
        play_in(winners, s2w, round_1_matches) ==
            IF DOMAIN s2w = {}
            THEN IF round_1_matches = <<>> THEN st
                 ELSE updated(ApplyUpdates(st.ms,
                          fill_legacy(round_1_matches, 1, winners, 0)))
            ELSE IF round_1_matches = <<>> THEN st
                 ELSE updated(fill_round_one(st.ms, s2w))
        next_created(made) ==
            [ms |-> made.ms, next_id |-> made.next_id, created |-> TRUE]
        advance(round_matches, winners) ==
            IF round_matches = <<>> \/ ~round_is_complete(round_matches)
                THEN st
            ELSE IF Len(winners) = 0 THEN st
            ELSE IF round_number = 0
                THEN play_in(winners, seed_to_winner(round_matches),
                             get_round_matches(st.ms, 1))
            ELSE IF \/ Len(winners) <= 1
                    \/ next_round_exists(st.ms, round_number + 1)
                THEN st
            ELSE next_created(create_next_round(st.ms, st.next_id, winners,
                                                round_number + 1))
        rounded(round_matches) ==
            advance(round_matches, collect_winners(round_matches))
    IN  rounded(get_round_matches(st.ms, round_number))

RECURSIVE advance_rounds(_, _, _)
advance_rounds(st, round_numbers, i) ==
    IF i > Len(round_numbers) THEN st
    ELSE advance_rounds(advance_one_round(st, round_numbers[i]),
                        round_numbers, i + 1)

\* a pass that always calls the function again
reinvoke_always(st) == TRUE

\* if created_next_round: the pass calls the function again
reinvoke(st) == st.created

\* [ms, next_id, calls] after advance_playoff_winners(db, _recursion_depth);
\* calls lists the invocations of the chain, each with its depth, whether
\* it walked the rounds and its created_next_round
RECURSIVE advance_playoff_winners(_, _, _)
advance_playoff_winners(ms, next_id, recursion_depth) ==
    IF recursion_depth >= MAX_RECURSION_DEPTH
    THEN [ms |-> ms, next_id |-> next_id,
          calls |-> << [depth |-> recursion_depth, walked |-> FALSE,
                        created |-> FALSE] >>]
    ELSE LET called(st, rest) ==
                 [rest EXCEPT !.calls =
                     << [depth |-> recursion_depth, walked |-> TRUE,
                         created |-> st.created] >> \o @]
             again(st) ==
                 IF reinvoke(st)
                 THEN called(st, advance_playoff_winners(st.ms, st.next_id,
                                                         recursion_depth + 1))
                 ELSE [ms |-> st.ms, next_id |-> st.next_id,
                       calls |-> << [depth |-> recursion_depth,
                                     walked |-> TRUE,
                                     created |-> st.created] >>]
         IN  again(advance_rounds([ms |-> ms, next_id |-> next_id,
                                   created |-> FALSE],
                                  SortedSeq(list_round_numbers(ms)), 1))

----------------------------------------------------------------------------
(* Champion lookup                                                         *)

\* the player id get_playoff_champion returns, NULL for None
get_playoff_champion(ms) ==
    LET single == {r \in list_round_numbers(ms) :
                      Cardinality(get_round_matches_set(ms, r)) = 1}
        lookup(final_match) ==
            IF ~Truthy(final_match.reported) \/ final_match.player2_id = NULL
            THEN NULL
            ELSE LET crowned(winner_id) ==
                         IF ~Truthy(winner_id) THEN NULL
                         ELSE IF winner_id \in DOMAIN players THEN winner_id
                         ELSE NULL
                 IN  crowned(determine_winner(final_match))
        finals(finals_round) ==
            lookup(CHOOSE m \in get_round_matches_set(ms, finals_round) : TRUE)
    IN  IF single = {} THEN NULL
        ELSE finals(CHOOSE r \in single : \A q \in single : q <= r)

----------------------------------------------------------------------------
(* State machine                                                           *)

\* The roster a run starts from: n approved players whose names sort
\* against the id order (a last name is shared by two players, so that the
\* first name decides between them)
Roster(n) ==
    [p \in 1..n |->
        [last_name |-> (n - p) \div 2, first_name |-> (n - p) % 2]]

\* Forms submitted to the report page: two decisive results and one that
\* validation rejects (one game each)
ReportForms ==
    { << <<11, 5>>, <<11, 7>>, <<BLANK, BLANK>> >>,
      << <<5, 11>>, <<7, 11>>, <<BLANK, BLANK>> >>,
      << <<11, 5>>, <<5, 11>>, <<BLANK, BLANK>> >> }

Init ==
    /\ \E n \in MinPlayers..MaxPlayers : players = Roster(n)
    /\ matches = {}
    /\ current_playoff_round = -1
    /\ current_week = 1
    /\ next_match_id = 1

\* POST /admin/force_playoffs
AdminForcePlayoffs ==
    /\ next_match_id <= MaxRebuildId
    /\ \E confirm \in BOOLEAN :
         IF Cardinality(DOMAIN players) < 2
         THEN UNCHANGED <<matches, current_playoff_round, next_match_id>>
         ELSE IF /\ \E m \in matches : m.playoff = 1 /\ m.reported = 1
                 /\ ~confirm
         THEN UNCHANGED <<matches, current_playoff_round, next_match_id>>
         ELSE LET built(made) ==
                      /\ matches' = made.ms
                      /\ next_match_id' = made.next_id
                      /\ current_playoff_round' = made.round
              IN  built(create_playoff_bracket(matches, next_match_id))
    /\ UNCHANGED <<players, current_week>>

\* POST /match/<match_id>
ReportMatch ==
    /\ \E m \in matches : \E form \in ReportForms :
         LET out == report_match(matches, current_playoff_round, current_week,
                                 m.id, form)
         IN  matches' = out.ms
    /\ UNCHANGED <<players, current_playoff_round, current_week, next_match_id>>

\* POST /admin/advance_playoff_round
AdminAdvancePlayoffRound ==
    /\ LET redirected(out) ==
               /\ matches' = out.ms
               /\ next_match_id' = out.next_id
               /\ current_playoff_round' = out.round
       IN  redirected(admin_advance_playoff_round(matches, next_match_id,
                                                  current_playoff_round))
    /\ UNCHANGED <<players, current_week>>

\* POST /admin/match/<match_id>/delete
AdminDeleteMatch ==
    /\ (next_match_id - 1) - Cardinality(matches) < MaxDeleted
    /\ \E m \in matches : matches' = matches \ {m}
    /\ UNCHANGED <<players, current_playoff_round, current_week, next_match_id>>

\* the league as its users and the admin run it: build the bracket, report
\* scores, advance rounds
Next ==
    \/ AdminForcePlayoffs
    \/ ReportMatch
    \/ AdminAdvancePlayoffRound

Spec == Init /\ [][Next]_vars

\* the same with the admin's corrective deletion of matches
NextAdmin ==
    \/ AdminForcePlayoffs
    \/ ReportMatch
    \/ AdminAdvancePlayoffRound
    \/ AdminDeleteMatch

SpecAdmin == Init /\ [][NextAdmin]_vars

\* the admin starts the playoffs once, on a league without a bracket
StartPlayoffs ==
    /\ next_match_id = 1
    /\ AdminForcePlayoffs

\* a player reports a match of the active round that is still open, with a
\* form the page accepts
ReportOpenMatch ==
    /\ \E m \in matches : \E form \in ReportForms :
         /\ m.playoff = 1
         /\ m.playoff_round = current_playoff_round
         /\ m.reported = 0
         /\ LET out == report_match(matches, current_playoff_round,
                                    current_week, m.id, form)
            IN  /\ out.ms # matches
                /\ matches' = out.ms
    /\ UNCHANGED <<players, current_playoff_round, current_week, next_match_id>>

\* one tournament played to its end: every open match is eventually
\* reported and the admin keeps advancing
NextLive ==
    \/ StartPlayoffs
    \/ ReportOpenMatch
    \/ AdminAdvancePlayoffRound

SpecLive ==
    /\ Init
    /\ [][NextLive]_vars
    /\ WF_vars(StartPlayoffs)
    /\ WF_vars(ReportOpenMatch)
    /\ WF_vars(AdminAdvancePlayoffRound)

----------------------------------------------------------------------------
(* Score entry on one regular-season match                                 *)

\* INSERT of a regular-season row by _persist_generated_week: a bye is
\* stored reported with score 0-0, any other pairing unreported
RegularRow(id, week, p1, p2) ==
    [id |-> id, week |-> week, player1_id |-> p1, player2_id |-> p2,
     score1 |-> IF p2 = NULL THEN 0 ELSE NULL,
     score2 |-> IF p2 = NULL THEN 0 ELSE NULL,
     games |-> NoGames,
     reported |-> IF p2 = NULL THEN 1 ELSE 0, double_forfeit |-> 0,
     playoff |-> 0, playoff_round |-> NULL, match_number |-> NULL]

\* POST /admin/match/<match_id>/edit: [ms, flash]
admin_edit_match(ms, match_id, form) ==
    LET m == CHOOSE x \in ms : x.id = match_id
        same(msg) == [ms |-> ms, flash |-> msg]
        stored(game_scores) ==
            [ms |-> {IF x.id = match_id
                     THEN [x EXCEPT
                             !.score1 = SumSeq([i \in DOMAIN game_scores |-> game_scores[i][1]]),
                             !.score2 = SumSeq([i \in DOMAIN game_scores |-> game_scores[i][2]]),
                             !.games = PadGames(game_scores),
                             !.double_forfeit = 0, !.reported = 1]
                     ELSE x : x \in ms},
             flash |-> "Match scores updated successfully."]
        edit(parsed) ==
            IF ~parsed.ok \/ ~validate_best_of_three(parsed.scores)
            THEN same("Invalid score.")
            ELSE stored(parsed.scores)
    IN  IF m.player2_id = NULL
            THEN same("Cannot edit scores for bye matches.")
        ELSE IF ~Truthy(m.reported)
            THEN same("Cannot edit unreported matches.")
        ELSE edit(parse_best_of_three_scores(form))

\* What a player can type for one game: both fields empty, one field empty,
\* text that is no integer, a negative score, a score above 99, a tied game,
\* and games either side wins
GameInputs ==
    { <<BLANK, BLANK>>, <<BLANK, 11>>, <<11, BLANK>>, <<NOTINT, 5>>,
      <<5, NOTINT>>, <<-3, 11>>, <<11, 100>>, <<11, 11>>,
      <<11, 5>>, <<12, 10>>, <<99, 0>>, <<5, 11>>, <<7, 11>>, <<0, 99>> }

ScoreForms == [1..MAX_GAMES -> GameInputs]

\* a league of two whose only week-1 match is open for its score
InitScores ==
    /\ players = Roster(2)
    /\ \E p \in 1..2 : matches = {RegularRow(1, 1, p, 3 - p)}
    /\ current_playoff_round = -1
    /\ current_week = 1
    /\ next_match_id = 2

\* POST /match/<match_id> with any of the forms
ReportScores ==
    /\ \E m \in matches : \E form \in ScoreForms :
         LET out == report_match(matches, current_playoff_round, current_week,
                                 m.id, form)
         IN  matches' = out.ms
    /\ UNCHANGED <<players, current_playoff_round, current_week, next_match_id>>

\* POST /admin/match/<match_id>/edit with any of the forms
AdminEditMatch ==
    /\ \E m \in matches : \E form \in ScoreForms :
         LET out == admin_edit_match(matches, m.id, form)
         IN  matches' = out.ms
    /\ UNCHANGED <<players, current_playoff_round, current_week, next_match_id>>

NextScores ==
    \/ ReportScores
    \/ AdminEditMatch

SpecScores == InitScores /\ [][NextScores]_vars

----------------------------------------------------------------------------
(* The outcome evaluator on one stored playoff row                         *)

\* per-game columns as score entry stores them: none, or a decided result
StoredGames ==
    { NoGames,
      PadGames(<< <<11, 5>>, <<11, 7>> >>),
      PadGames(<< <<5, 11>>, <<7, 11>> >>),
      PadGames(<< <<11, 5>>, <<5, 11>>, <<11, 9>> >>),
      PadGames(<< <<11, 5>>, <<5, 11>>, <<9, 11>> >>) }

\* aggregate columns: NULL, the 0 of byes and forfeits, sums of game scores
StoredScores == {NULL, 0, 21, 22}

\* the rows of a one-match round in the conditions the columns of the
\* matches table admit
StoredRows ==
    { [PlayoffRow(1, p1, p2, 1, 1) EXCEPT
          !.reported = rep, !.double_forfeit = df, !.games = g,
          !.score1 = s1, !.score2 = s2] :
      p1 \in {NULL, 1}, p2 \in {NULL, 2}, rep \in {0, 1}, df \in {0, 1},
      g \in StoredGames, s1 \in StoredScores, s2 \in StoredScores }

InitWinner ==
    /\ players = Roster(2)
    /\ \E m \in StoredRows : matches = {m}
    /\ current_playoff_round = 1
    /\ current_week = 1
    /\ next_match_id = 2

\* the admin advances the round of that row: its winner is determined and
\* the round is found complete or not
SpecWinner == InitWinner /\ [][AdminAdvancePlayoffRound]_vars

----------------------------------------------------------------------------
(* Weekly round-robin scheduler                                            *)
(*                                                                         *)
(* random.shuffle is modelled by its possible results: an operator that    *)
(* shuffles yields the set of the values it can return.  The empty set of  *)
(* week matchings stands for the None the search returns.                  *)

\* the orders random.shuffle can leave a list of the elements of S in
RECURSIVE Shuffles(_)
Shuffles(S) ==
    IF S = {} THEN {<<>>}
    ELSE UNION {{<<x>> \o s : s \in Shuffles(S \ {x})} : x \in S}

\* list.remove(x) on a list without duplicates
Remove(s, x) == SelectSeq(s, LAMBDA y : y # x)

player_has_week_match(ms, player_id, week, exclude_match_id) ==
    IF player_id = NULL \/ week = NULL THEN FALSE
    ELSE \E m \in ms :
            /\ m.playoff = 0
            /\ m.week = week
            /\ (m.player1_id = player_id \/ m.player2_id = player_id)
            /\ (exclude_match_id = NULL \/ m.id # exclude_match_id)

matchup_already_exists(ms, player1_id, player2_id, exclude_match_id) ==
    IF ~Truthy(player1_id) \/ ~Truthy(player2_id) THEN FALSE
    ELSE \E m \in ms :
            /\ m.playoff = 0
            /\ \/ m.player1_id = player1_id /\ m.player2_id = player2_id
               \/ m.player1_id = player2_id /\ m.player2_id = player1_id
            /\ (exclude_match_id = NULL \/ m.id # exclude_match_id)

\* _valid_opponents_for without its test of the used pairs
_valid_opponents_for_any_pair(player, candidates, used_pairs) ==
    SelectSeq(candidates,
              LAMBDA candidate : ~(player = NULL /\ candidate = NULL))

\* the bye placeholder None is NULL
_valid_opponents_for(player, candidates, used_pairs) ==
    SelectSeq(candidates,
              LAMBDA candidate :
                  /\ ~(player = NULL /\ candidate = NULL)
                  /\ \/ player = NULL
                     \/ candidate = NULL
                     \/ {player, candidate} \notin used_pairs)

\* the loop of _select_player_with_fewest_options from position i on; best
\* is <<>> for None or <<best_player, best_options>>
RECURSIVE select_from(_, _, _, _)
select_from(available, used_pairs, i, best) ==
    IF i > Len(available)
    THEN IF best = <<>> THEN [player |-> NULL, options |-> <<>>]
         ELSE [player |-> best[1], options |-> best[2]]
    ELSE LET step(options) ==
                 IF options = <<>>
                 THEN [player |-> available[i], options |-> <<>>]
                 ELSE IF best = <<>> \/ Len(options) < Len(best[2])
                 THEN IF Len(options) = 1
                      THEN [player |-> available[i], options |-> options]
                      ELSE select_from(available, used_pairs, i + 1,
                                       <<available[i], options>>)
                 ELSE select_from(available, used_pairs, i + 1, best)
         IN  step(_valid_opponents_for(available[i],
                                       Remove(available, available[i]),
                                       used_pairs))

\* a selection that takes the first participant and keeps only the first
\* of its opponents, so that the search never tries a second one
_select_player_with_fewest_options_first_pick(available, used_pairs) ==
    LET kept(options) ==
            [player |-> available[1],
             options |-> IF options = <<>> THEN <<>> ELSE <<options[1]>>]
    IN  kept(_valid_opponents_for(available[1],
                                  Remove(available, available[1]), used_pairs))

_select_player_with_fewest_options(available, used_pairs) ==
    select_from(available, used_pairs, 1, <<>>)

\* the matchings (lists of pairs) the search can return for this order of
\* the participants
RECURSIVE _match_week(_, _, _)
_match_week(available, used_pairs, week_matches) ==
    IF available = <<>> THEN {week_matches}
    ELSE LET pair(player, opponent) ==
                 _match_week(Remove(Remove(available, player), opponent),
                             IF player # NULL /\ opponent # NULL
                             THEN used_pairs \cup {{player, opponent}}
                             ELSE used_pairs,
                             Append(week_matches, <<player, opponent>>))
             try(sel) ==
                 UNION {pair(sel.player, opponent) :
                            opponent \in SeqToSet(sel.options)}
         IN  try(_select_player_with_fewest_options(available, used_pairs))

\* the search is exhaustive, so that every one of the 500 shuffles fails
\* when one does
_build_week_matching(roster, used_pairs) ==
    LET participants == IF Cardinality(roster) % 2 # 0
                        THEN roster \cup {NULL} ELSE roster
    IN  UNION {_match_week(shuffled, used_pairs, <<>>) :
                   shuffled \in Shuffles(participants)}

\* the pairs of real players a week adds to used_pairs
WeekPairs(week_matches) ==
    {{week_matches[i][1], week_matches[i][2]} :
        i \in {j \in DOMAIN week_matches :
                 week_matches[j][1] # NULL /\ week_matches[j][2] # NULL}}

\* one attempt of generate_reseeded_weeks: the schedules it can complete
\* from the weeks built so far
RECURSIVE attempt_weeks(_, _, _, _)
attempt_weeks(roster, used_pairs, weeks_left, schedule) ==
    IF weeks_left = 0 THEN {schedule}
    ELSE UNION {attempt_weeks(roster, used_pairs \cup WeekPairs(week_matches),
                              weeks_left - 1, Append(schedule, week_matches)) :
                    week_matches \in _build_week_matching(roster, used_pairs)}

\* whether an attempt can fail: some sequence of weeks it can build leaves
\* a week without matching
RECURSIVE attempt_can_fail(_, _, _)
attempt_can_fail(roster, used_pairs, weeks_left) ==
    IF weeks_left = 0 THEN FALSE
    ELSE LET built(options) ==
                 \/ options = {}
                 \/ \E week_matches \in options :
                        attempt_can_fail(roster,
                                         used_pairs \cup WeekPairs(week_matches),
                                         weeks_left - 1)
         IN  built(_build_week_matching(roster, used_pairs))

\* [schedules, none]: the schedules the call can return, and whether it can
\* return None (all max_attempts attempts failing)
generate_reseeded_weeks(player_ids, existing_pairs, weeks_needed) ==
    IF weeks_needed <= 0 THEN [schedules |-> {<<>>}, none |-> FALSE]
    ELSE IF Cardinality(player_ids) < 2
    THEN [schedules |-> {[w \in 1..weeks_needed |-> <<>>]}, none |-> FALSE]
    ELSE [schedules |-> attempt_weeks(player_ids, existing_pairs,
                                      weeks_needed, <<>>),
          none |-> attempt_can_fail(player_ids, existing_pairs, weeks_needed)]

----------------------------------------------------------------------------
(* Regular season: week generation, week advancement, regeneration         *)
(*                                                                         *)
(* An operator that calls the scheduler yields the set of its possible     *)
(* outcomes.  ms is the matches table as the open transaction sees it; the *)
(* id sequence is not transactional, so next_id survives a rollback.       *)

collect_active_player_ids(ps) == DOMAIN ps

_regular_week_exists(ms, target_week) ==
    \E m \in ms : m.playoff = 0 /\ m.week = target_week

_collect_existing_pairs(ms, roster_set) ==
    {{m.player1_id, m.player2_id} :
        m \in {x \in ms : /\ x.playoff = 0
                          /\ x.player1_id # NULL
                          /\ x.player2_id # NULL
                          /\ x.player1_id \in roster_set
                          /\ x.player2_id \in roster_set}}

\* the rows _persist_generated_week inserts, with consecutive ids from next_id
_persist_generated_week(next_id, target_week, week_matches) ==
    LET kept == SelectSeq(week_matches,
                          LAMBDA pr : ~(pr[1] = NULL /\ pr[2] = NULL))
    IN  {RegularRow(next_id + i - 1, target_week, kept[i][1], kept[i][2]) :
             i \in DOMAIN kept}

\* outcomes [success, inserted, ms, next_id, message]
ensure_regular_week_generated(ms, next_id, target_week, player_ids) ==
    LET failed(msg) == [success |-> FALSE, inserted |-> FALSE, ms |-> ms,
                        next_id |-> next_id, message |-> msg]
        persisted(rows) ==
            IF rows = {} THEN failed("Generated week contained no matches.")
            ELSE [success |-> TRUE, inserted |-> TRUE, ms |-> ms \cup rows,
                  next_id |-> next_id + Cardinality(rows), message |-> ""]
        generated(gen) ==
            {persisted(_persist_generated_week(next_id, target_week, schedule[1])) :
                 schedule \in gen.schedules}
            \cup (IF gen.none
                  THEN {failed("Unable to generate a conflict-free schedule for the next week.")}
                  ELSE {})
    IN  IF target_week < 1 \/ target_week > MAX_WEEKS
            THEN {failed("Week must be between 1 and MAX_WEEKS.")}
        ELSE IF _regular_week_exists(ms, target_week)
            THEN {[success |-> TRUE, inserted |-> FALSE, ms |-> ms,
                   next_id |-> next_id, message |-> ""]}
        ELSE IF Cardinality(player_ids) < 2
            THEN {failed("Need at least two approved players to generate regular season matches.")}
        ELSE generated(generate_reseeded_weeks(
                           player_ids, _collect_existing_pairs(ms, player_ids), 1))

\* weeks first..last in turn; outcomes [success, ms, next_id, message]
RECURSIVE ensure_weeks_generated(_, _, _, _, _)
ensure_weeks_generated(ms, next_id, first, last, player_ids) ==
    IF first > last
    THEN {[success |-> TRUE, ms |-> ms, next_id |-> next_id, message |-> ""]}
    ELSE UNION {IF ~out.success
                THEN {[success |-> FALSE, ms |-> out.ms,
                       next_id |-> out.next_id, message |-> out.message]}
                ELSE ensure_weeks_generated(out.ms, out.next_id, first + 1,
                                            last, player_ids) :
                    out \in ensure_regular_week_generated(ms, next_id, first,
                                                          player_ids)}

\* the rows the auto-forfeit UPDATE of a week change touches
ToForfeit(ms, current_week_, new_week) ==
    {m \in ms : /\ m.playoff = 0
                /\ m.week # NULL
                /\ m.week >= current_week_
                /\ m.week < new_week
                /\ m.player2_id # NULL
                /\ m.reported = 0}

\* outcomes [success, ms, next_id, message]; ms holds the forfeits and the
\* weeks inserted so far also when success is FALSE
_advance_regular_season_weeks(ms, next_id, ps, current_week_, new_week) ==
    LET forfeit == ToForfeit(ms, current_week_, new_week)
        forfeited == {IF m \in forfeit
                      THEN [m EXCEPT !.reported = 1, !.double_forfeit = 1,
                                     !.score1 = 0, !.score2 = 0,
                                     !.games = NoGames]
                      ELSE m : m \in ms}
    IN  ensure_weeks_generated(forfeited, next_id, current_week_ + 1, new_week,
                               collect_active_player_ids(ps))

----------------------------------------------------------------------------
(* Regular season: the admin's routes                                      *)

\* admin_update_week committing what a failed generation left in the
\* transaction instead of rolling it back
admin_update_week_no_rollback(ms, next_id, ps, cw, new_week, confirm) ==
    LET current_week_ == get_current_week(cw)
        same(msg) == {[ms |-> ms, next_id |-> next_id, week |-> cw, flash |-> msg]}
    IN  IF new_week = NOTINT THEN same("Week must be an integer.")
        ELSE IF new_week < 1 \/ new_week > MAX_WEEKS
            THEN same("Week must be between 1 and MAX_WEEKS.")
        ELSE IF /\ new_week > current_week_
                /\ ToForfeit(ms, current_week_, new_week) # {}
                /\ ~confirm
            THEN same("WARNING: advancing auto-forfeits unreported matches.")
        ELSE IF new_week > current_week_
            THEN {IF ~out.success
                  THEN [ms |-> out.ms, next_id |-> out.next_id, week |-> cw,
                        flash |-> out.message]
                  ELSE [ms |-> out.ms, next_id |-> out.next_id,
                        week |-> new_week, flash |-> "Current week set."] :
                      out \in _advance_regular_season_weeks(
                                  ms, next_id, ps, current_week_, new_week)}
        ELSE {[ms |-> ms, next_id |-> next_id, week |-> new_week,
               flash |-> "Current week set."]}

\* POST /admin/week: outcomes [ms, next_id, week, flash]
admin_update_week(ms, next_id, ps, cw, new_week, confirm) ==
    LET current_week_ == get_current_week(cw)
        same(msg) == {[ms |-> ms, next_id |-> next_id, week |-> cw, flash |-> msg]}
    IN  IF new_week = NOTINT THEN same("Week must be an integer.")
        ELSE IF new_week < 1 \/ new_week > MAX_WEEKS
            THEN same("Week must be between 1 and MAX_WEEKS.")
        ELSE IF /\ new_week > current_week_
                /\ ToForfeit(ms, current_week_, new_week) # {}
                /\ ~confirm
            THEN same("WARNING: advancing auto-forfeits unreported matches.")
        ELSE IF new_week > current_week_
            THEN {IF ~out.success
                  THEN [ms |-> ms, next_id |-> out.next_id, week |-> cw,
                        flash |-> out.message]
                  ELSE [ms |-> out.ms, next_id |-> out.next_id,
                        week |-> new_week, flash |-> "Current week set."] :
                      out \in _advance_regular_season_weeks(
                                  ms, next_id, ps, current_week_, new_week)}
        ELSE {[ms |-> ms, next_id |-> next_id, week |-> new_week,
               flash |-> "Current week set."]}

\* outcomes [success, ms, next_id, week, message]
generate_weekly_schedule(ms, next_id, ps, cw) ==
    {IF ~out.success
     THEN [success |-> FALSE, ms |-> ms, next_id |-> out.next_id, week |-> cw,
           message |-> out.message]
     ELSE [success |-> TRUE, ms |-> out.ms, next_id |-> out.next_id,
           week |-> 1, message |-> ""] :
         out \in ensure_regular_week_generated(
                     {m \in ms : m.playoff # 0}, next_id, 1,
                     collect_active_player_ids(ps))}

\* POST /admin/generate_schedule: outcomes [ms, next_id, week, flash]
admin_generate_schedule(ms, next_id, ps, cw, confirm) ==
    IF (\E m \in ms : m.reported = 1 /\ m.playoff = 0) /\ ~confirm
    THEN {[ms |-> ms, next_id |-> next_id, week |-> cw,
           flash |-> "Schedule regeneration cancelled."]}
    ELSE {[ms |-> out.ms, next_id |-> out.next_id, week |-> out.week,
           flash |-> IF out.success
                     THEN "Regular season schedule regenerated and reset to Week 1."
                     ELSE out.message] :
              out \in generate_weekly_schedule(ms, next_id, ps, cw)}

\* "" when both players are found, else the error message
_load_and_validate_players(ps, player_ids) ==
    IF \E i \in DOMAIN player_ids :
           Truthy(player_ids[i]) /\ player_ids[i] \notin DOMAIN ps
    THEN "Player not found."
    ELSE ""

\* a row as admin_create_match and _ensure_week_one_coverage insert it
UnreportedRow(id, week, p1, p2) ==
    [id |-> id, week |-> week, player1_id |-> p1, player2_id |-> p2,
     score1 |-> NULL, score2 |-> NULL, games |-> NoGames,
     reported |-> 0, double_forfeit |-> 0,
     playoff |-> 0, playoff_round |-> NULL, match_number |-> NULL]

\* POST /admin/match/create: [ms, next_id, flash]
admin_create_match(ms, next_id, ps, week, player1_id, player2_id) ==
    LET same(msg) == [ms |-> ms, next_id |-> next_id, flash |-> msg]
    IN  IF week = NOTINT THEN same("Invalid week selection.")
        ELSE IF week < 1 \/ week > MAX_WEEKS
            THEN same("Week must be between 1 and MAX_WEEKS.")
        ELSE IF player1_id = BLANK THEN same("Player 1 is required.")
        ELSE IF Truthy(player2_id) /\ player1_id = player2_id
            THEN same("A player cannot face themselves.")
        ELSE IF _load_and_validate_players(ps, <<player1_id, player2_id>>) # ""
            THEN same("Player not found.")
        ELSE IF player1_id \notin DOMAIN ps
            THEN same("Player 1 must be approved before creating a match.")
        ELSE IF player_has_week_match(ms, player1_id, week, NULL)
            THEN same("Player 1 already has a match that week.")
        ELSE IF Truthy(player2_id) /\ player_has_week_match(ms, player2_id, week, NULL)
            THEN same("Player 2 already has a match that week.")
        ELSE IF matchup_already_exists(ms, player1_id, player2_id, NULL)
            THEN same("These players already face each other elsewhere in the season.")
        ELSE [ms |-> ms \cup {UnreportedRow(next_id, week, player1_id, player2_id)},
              next_id |-> next_id + 1, flash |-> "Created match."]

_reset_match_and_assign_players(ms, match_id, player1_id, player2_id) ==
    {IF m.id = match_id
     THEN [m EXCEPT !.player1_id = player1_id, !.player2_id = player2_id,
                    !.score1 = NULL, !.score2 = NULL, !.games = NoGames,
                    !.reported = 0, !.double_forfeit = 0]
     ELSE m : m \in ms}

\* POST /admin/match/assign for a match of the table: [ms, flash]
admin_assign_match_players(ms, ps, match_id, player1_id, player2_id) ==
    LET m == CHOOSE x \in ms : x.id = match_id
        same(msg) == [ms |-> ms, flash |-> msg]
    IN  IF Truthy(m.playoff)
            THEN same("Playoff matches must be managed from the playoff bracket.")
        ELSE IF player1_id = BLANK THEN same("Player 1 is required.")
        ELSE IF Truthy(player2_id) /\ player1_id = player2_id
            THEN same("A player cannot face themselves.")
        ELSE IF _load_and_validate_players(ps, <<player1_id, player2_id>>) # ""
            THEN same("Player not found.")
        ELSE IF player1_id \notin DOMAIN ps
            THEN same("Player 1 must be approved before assignment.")
        ELSE IF m.week # NULL /\ player_has_week_match(ms, player1_id, m.week, match_id)
            THEN same("Player 1 already has a match that week.")
        ELSE IF /\ m.week # NULL /\ Truthy(player2_id)
                /\ player_has_week_match(ms, player2_id, m.week, match_id)
            THEN same("Player 2 already has a match that week.")
        ELSE IF matchup_already_exists(ms, player1_id, player2_id, match_id)
            THEN same("These players already face each other elsewhere in the season.")
        ELSE [ms |-> _reset_match_and_assign_players(ms, match_id, player1_id, player2_id),
              flash |-> "Match updated."]

_future_regular_weeks_have_scores(ms) ==
    \E m \in ms : m.playoff = 0 /\ m.week # NULL /\ m.week > 1 /\ m.reported = 1

\* [players_with_week_one, existing_pairs]
_load_week_one_metadata(ms) ==
    LET rows == {m \in ms : m.playoff = 0 /\ m.week = 1}
    IN  [players_with_week_one |->
             {m.player1_id : m \in {r \in rows : Truthy(r.player1_id)}}
             \cup {m.player2_id : m \in {r \in rows : Truthy(r.player2_id)}},
         existing_pairs |->
             {{m.player1_id, m.player2_id} :
                 m \in {r \in rows : Truthy(r.player1_id) /\ Truthy(r.player2_id)}}]

\* [success, ms, next_id, message]; the two missing players in the order of
\* player_ids, which is the order of their ids
_ensure_week_one_coverage(ms, next_id, player_ids, players_with_week_one, existing_pairs) ==
    LET missing_players == player_ids \ players_with_week_one
        first == CHOOSE p \in missing_players : \A q \in missing_players : p <= q
        second == CHOOSE p \in missing_players : p # first
    IN  IF missing_players = {}
            THEN [success |-> TRUE, ms |-> ms, next_id |-> next_id, message |-> ""]
        ELSE IF Cardinality(missing_players) # 2
            THEN [success |-> FALSE, ms |-> ms, next_id |-> next_id,
                  message |-> "Unexpected number of players missing Week 1 matches."]
        ELSE IF missing_players \in existing_pairs
            THEN [success |-> FALSE, ms |-> ms, next_id |-> next_id,
                  message |-> "Week 1 already contains this pairing."]
        ELSE [success |-> TRUE,
              ms |-> ms \cup {UnreportedRow(next_id, 1, first, second)},
              next_id |-> next_id + 1,
              message |-> "Added Week 1 match for newly approved players before reseeding."]

_clear_future_regular_weeks(ms, start_week) ==
    {m \in ms : ~(m.playoff = 0 /\ m.week # NULL /\ m.week >= start_week)}

\* POST /admin/reseed_regular_season: [ms, next_id, flash]
admin_reseed_regular_season(ms, next_id, ps, cw) ==
    LET player_ids == collect_active_player_ids(ps)
        meta == _load_week_one_metadata(ms)
        cleared(cov) ==
            IF ~cov.success
            THEN [ms |-> ms, next_id |-> next_id, flash |-> cov.message]
            ELSE [ms |-> _clear_future_regular_weeks(
                             cov.ms, IF get_current_week(cw) + 1 > 2
                                     THEN get_current_week(cw) + 1 ELSE 2),
                  next_id |-> cov.next_id, flash |-> "Reseeded."]
    IN  IF Cardinality(player_ids) < 2
            THEN [ms |-> ms, next_id |-> next_id,
                  flash |-> "Need at least two approved players to reseed the schedule."]
        ELSE IF _future_regular_weeks_have_scores(ms)
            THEN [ms |-> ms, next_id |-> next_id,
                  flash |-> "Cannot reseed: matches in weeks 2+ already have reported scores."]
        ELSE cleared(_ensure_week_one_coverage(
                         ms, next_id, player_ids, meta.players_with_week_one,
                         meta.existing_pairs))

----------------------------------------------------------------------------
(* Regular season: the state machine                                       *)

\* rosters of the regular season have MinPlayers..MaxRoster players
MaxRoster == 3
\* the admin's forms name the weeks 1..MaxWeek
MaxWeek == 2
\* a step that can insert rows is taken only while the next match id is at
\* most this value
MaxSeasonId == 3

InitSeason ==
    /\ \E n \in MinPlayers..MaxRoster : players = Roster(n)
    /\ matches = {}
    /\ current_playoff_round = -1
    /\ current_week = 1
    /\ next_match_id = 1

\* POST /admin/generate_schedule
AdminGenerateSchedule ==
    /\ next_match_id <= MaxSeasonId
    /\ \E confirm \in BOOLEAN :
         \E out \in admin_generate_schedule(matches, next_match_id, players,
                                            current_week, confirm) :
            /\ matches' = out.ms
            /\ next_match_id' = out.next_id
            /\ current_week' = out.week
    /\ UNCHANGED <<players, current_playoff_round>>

\* POST /admin/week
AdminUpdateWeek ==
    /\ \E new_week \in 0..MaxWeek : \E confirm \in BOOLEAN :
         /\ \/ next_match_id <= MaxSeasonId
            \/ \A w \in (get_current_week(current_week) + 1)..new_week :
                   _regular_week_exists(matches, w)
         /\ \E out \in admin_update_week(matches, next_match_id, players,
                                      current_week, new_week, confirm) :
               /\ matches' = out.ms
               /\ next_match_id' = out.next_id
               /\ current_week' = out.week
    /\ UNCHANGED <<players, current_playoff_round>>

\* POST /admin/match/create
AdminCreateMatch ==
    /\ next_match_id <= MaxSeasonId
    /\ \E week \in 1..MaxWeek : \E p1 \in 1..MaxRoster :
         \E p2 \in (1..MaxRoster) \cup {NULL} :
            LET out == admin_create_match(matches, next_match_id, players,
                                          week, p1, p2)
            IN  /\ matches' = out.ms
                /\ next_match_id' = out.next_id
    /\ UNCHANGED <<players, current_playoff_round, current_week>>

\* POST /admin/match/assign
AdminAssignMatchPlayers ==
    /\ \E m \in matches : \E p1 \in 1..MaxRoster :
         \E p2 \in (1..MaxRoster) \cup {NULL} :
            LET out == admin_assign_match_players(matches, players, m.id, p1, p2)
            IN  matches' = out.ms
    /\ UNCHANGED <<players, current_playoff_round, current_week, next_match_id>>

\* POST /admin/reseed_regular_season
AdminReseedRegularSeason ==
    /\ next_match_id <= MaxSeasonId
    /\ LET out == admin_reseed_regular_season(matches, next_match_id, players,
                                              current_week)
       IN  /\ matches' = out.ms
           /\ next_match_id' = out.next_id
    /\ UNCHANGED <<players, current_playoff_round, current_week>>

NextSeason ==
    \/ AdminGenerateSchedule
    \/ AdminUpdateWeek
    \/ AdminCreateMatch
    \/ AdminAssignMatchPlayers
    \/ AdminReseedRegularSeason

SpecSeason == InitSeason /\ [][NextSeason]_vars

----------------------------------------------------------------------------
(* The scheduler on any set of used pairs                                  *)

\* rosters handed to the scheduler have MinPlayers..MaxSchedRoster players
MaxSchedRoster == 4
\* the scheduler is asked for 0..MaxWeeksNeeded weeks
MaxWeeksNeeded == 2

\* a week every pair of different players can be given without a player
\* meeting two opponents in it (n is odd and at least the roster size)
PairWeek(a, b, n) == ((a + b) % n) + 1

\* the table after the admin created one match for each pair of a set of
\* pairs, every pair in the week PairWeek gives it
CreatedSeason(pairs, n) ==
    LET ordered == SortedSeq({10 * (CHOOSE a \in pr : \A b \in pr : a <= b)
                                 + (CHOOSE a \in pr : \A b \in pr : a >= b) :
                              pr \in pairs})
    IN  {UnreportedRow(i, PairWeek(ordered[i] \div 10, ordered[i] % 10, n),
                       ordered[i] \div 10, ordered[i] % 10) :
             i \in DOMAIN ordered}

InitScheduler ==
    /\ \E n \in MinPlayers..MaxSchedRoster :
         /\ players = Roster(n)
         /\ \E pairs \in SUBSET {pr \in SUBSET (1..n) : Cardinality(pr) = 2} :
              /\ matches = CreatedSeason(pairs, 2 * (n \div 2) + 1)
              /\ next_match_id = Cardinality(pairs) + 1
    /\ current_playoff_round = -1
    /\ current_week = 1

\* the admin changes the week of such a season, which calls the scheduler
\* on the pairs of the table for every week not generated yet
SpecScheduler == InitScheduler /\ [][AdminUpdateWeek]_vars

----------------------------------------------------------------------------
(* A regular season that is played: weeks are generated, scores reported   *)
(* and weeks closed                                                        *)

\* Results submitted for regular-season matches: 22-12 and 12-22 in two
\* games, 27-21 and 31-21 in three, and a form validation rejects
SeasonForms ==
    { << <<11, 5>>, <<11, 7>>, <<BLANK, BLANK>> >>,
      << <<5, 11>>, <<7, 11>>, <<BLANK, BLANK>> >>,
      << <<11, 5>>, <<5, 11>>, <<11, 5>> >>,
      << <<11, 5>>, <<5, 11>>, <<15, 5>> >>,
      << <<11, 5>>, <<5, 11>>, <<BLANK, BLANK>> >> }

\* POST /match/<match_id> for a regular-season match
ReportWeekMatch ==
    /\ \E m \in matches : \E form \in SeasonForms :
         LET out == report_match(matches, current_playoff_round, current_week,
                                 m.id, form)
         IN  matches' = out.ms
    /\ UNCHANGED <<players, current_playoff_round, current_week, next_match_id>>

NextStandings ==
    \/ AdminGenerateSchedule
    \/ AdminUpdateWeek
    \/ ReportWeekMatch

SpecStandings == InitSeason /\ [][NextStandings]_vars

----------------------------------------------------------------------------
(* Removal of a player                                                     *)

\* POST /admin/player/<player_id>/delete: [ms, ps, flash]
admin_delete_player(ms, ps, player_id) ==
    LET mine == {m \in ms : m.player1_id = player_id \/ m.player2_id = player_id}
        reported_matches == {m \in mine : m.reported = 1 /\ m.player2_id # NULL}
        playoff_matches == {m \in mine : m.playoff = 1}
        same(msg) == [ms |-> ms, ps |-> ps, flash |-> msg]
    IN  IF Cardinality(reported_matches) > 0
            THEN same("Cannot delete player with reported match history. This would corrupt rankings and standings.")
        ELSE IF Cardinality(playoff_matches) > 0
            THEN same("Cannot delete player in playoff bracket. Reset the league or wait until next season.")
        ELSE [ms |-> ms \ mine,
              ps |-> [q \in DOMAIN ps \ {player_id} |-> ps[q]],
              flash |-> "Player removed. Note: Schedule may need regeneration."]

\* the admin asks for the removal of player p
DeletePlayer(p) ==
    /\ LET out == admin_delete_player(matches, players, p)
       IN  /\ matches' = out.ms
           /\ players' = out.ps
    /\ UNCHANGED <<current_playoff_round, current_week, next_match_id>>

\* POST /admin/player/<player_id>/delete for any player of the roster
AdminDeletePlayer == \E p \in DOMAIN players : DeletePlayer(p)

\* a league whose roster the admin prunes: weeks are generated, scores
\* reported, the bracket built and players removed
NextRoster ==
    \/ AdminGenerateSchedule
    \/ ReportWeekMatch
    \/ AdminForcePlayoffs
    \/ AdminDeletePlayer

SpecRoster == InitSeason /\ [][NextRoster]_vars

----------------------------------------------------------------------------
(* Requests that die before their last commit                              *)
(*                                                                         *)
(* No handler of the bracket engine catches an exception, so a request     *)
(* that dies (a failed statement, a lost connection, a killed worker)      *)
(* leaves what its last db.commit() made durable; the connection is closed *)
(* and the open transaction is lost.  Ids drawn from the sequence are not  *)
(* given back.                                                             *)

\* create_playoff_bracket cut short: before its first commit nothing is
\* durable, after it the DELETE is; [ms, next_id, round]
create_playoff_bracket_interrupted(ms, next_id, cpr) ==
    LET cut(made) ==
            {[ms |-> kept, next_id |-> n, round |-> cpr] :
                kept \in {ms, delete_playoff_matches(ms)},
                n \in next_id..made.next_id}
    IN  cut(create_playoff_bracket(ms, next_id))

\* admin_advance_playoff_round cut short: nothing is durable before the
\* first commit; create_next_round and the fill of an existing next round
\* commit before the round setting is written; [ms, next_id, round]
admin_advance_playoff_round_interrupted(ms, next_id, cpr) ==
    LET cut(out) ==
            {[ms |-> ms, next_id |-> n, round |-> cpr] :
                n \in next_id..out.next_id}
            \cup (IF out.flash = "Advanced to next round!"
                  THEN {[ms |-> out.ms, next_id |-> out.next_id, round |-> cpr]}
                  ELSE {})
    IN  cut(admin_advance_playoff_round(ms, next_id, cpr))

\* a request that dies is modelled only while the next match id is at most
\* this value
MaxFailingId == 6

\* POST /admin/force_playoffs that dies inside create_playoff_bracket
AdminForcePlayoffsFails ==
    /\ next_match_id <= MaxRebuildId
    /\ Cardinality(DOMAIN players) >= 2
    /\ \E confirm \in BOOLEAN :
         /\ (\E m \in matches : m.playoff = 1 /\ m.reported = 1) => confirm
         /\ \E left \in create_playoff_bracket_interrupted(
                            matches, next_match_id, current_playoff_round) :
               /\ matches' = left.ms
               /\ next_match_id' = left.next_id
               /\ current_playoff_round' = left.round
    /\ UNCHANGED <<players, current_week>>

\* POST /admin/advance_playoff_round that dies before its last commit
AdminAdvancePlayoffRoundFails ==
    /\ next_match_id <= MaxFailingId
    /\ \E left \in admin_advance_playoff_round_interrupted(
                       matches, next_match_id, current_playoff_round) :
          /\ matches' = left.ms
          /\ next_match_id' = left.next_id
          /\ current_playoff_round' = left.round
    /\ UNCHANGED <<players, current_week>>

\* the bracket engine with requests that can die
NextFailing ==
    \/ AdminForcePlayoffs
    \/ ReportMatch
    \/ AdminAdvancePlayoffRound
    \/ AdminForcePlayoffsFails
    \/ AdminAdvancePlayoffRoundFails

\* fields of the leagues whose requests can die have MinPlayers..MaxFailingPlayers
\* players
MaxFailingPlayers == 4

InitFailing ==
    /\ \E n \in MinPlayers..MaxFailingPlayers : players = Roster(n)
    /\ matches = {}
    /\ current_playoff_round = -1
    /\ current_week = 1
    /\ next_match_id = 1

SpecFailing == InitFailing /\ [][NextFailing]_vars

----------------------------------------------------------------------------
(* Bracket presentation                                                    *)
(*                                                                         *)
(* A value that can be None is a sequence of at most one element here, as  *)
(* the connector arithmetic can yield any integer.                         *)

\* x or 0
Or0(x) == IF Truthy(x) THEN x ELSE 0

\* _normalize_round_matches: the matches of a round, given in id order, in
\* display order (list.sort is stable); display_index is the position
_normalize_round_matches(matches_seq, round_number) ==
    LET key(m) == IF Truthy(m.match_number) THEN m.match_number ELSE m.id
        before(a, b) ==
            IF round_number = 0
            THEN \/ Or0(a.match_number) > Or0(b.match_number)
                 \/ Or0(a.match_number) = Or0(b.match_number) /\ a.id < b.id
            ELSE key(a) < key(b)
        pos(i) ==
            1 + Cardinality({j \in DOMAIN matches_seq :
                               \/ before(matches_seq[j], matches_seq[i])
                               \/ /\ ~before(matches_seq[i], matches_seq[j])
                                  /\ j < i})
        at(p) == matches_seq[CHOOSE i \in DOMAIN matches_seq : pos(i) = p]
    IN  [p \in DOMAIN matches_seq |->
            [id |-> at(p).id, match_number |-> at(p).match_number,
             display_index |-> p]]

\* a connector that pairs display index k with display index k
_compute_next_display_index_same_row(round_number, next_round_count, match) ==
    IF next_round_count = <<>> THEN <<>>
    ELSE IF match.display_index <= next_round_count[1]
         THEN <<match.display_index>> ELSE <<>>

\* _compute_next_display_index; next_round_count is the match_count of the
\* next round, None when there is no next round
_compute_next_display_index(round_number, next_round_count, match) ==
    LET play_in(match_count, bracket_size, target_seed) ==
            LET target_index ==
                    IF target_seed <= bracket_size \div 2
                    THEN target_seed
                    ELSE bracket_size + 1 - target_seed
            IN  IF ~(Truthy(bracket_size) /\ Truthy(target_seed)) THEN <<>>
                ELSE IF target_index <= match_count THEN <<target_index>>
                ELSE <<>>
        later(match_count, target_index) ==
            IF Truthy(target_index) /\ target_index <= match_count
            THEN <<target_index>> ELSE <<>>
    IN  IF next_round_count = <<>> THEN <<>>
        ELSE IF round_number = 0
            THEN play_in(next_round_count[1],
                         IF next_round_count[1] * 2 > 0
                         THEN next_round_count[1] * 2 ELSE 0,
                         IF Truthy(match.match_number)
                         THEN match.match_number ELSE match.display_index)
        ELSE later(next_round_count[1], (match.display_index + 1) \div 2)

\* finalize_bracket_rounds on the persisted playoff rows, as the playoffs
\* page calls it: one view per match,
\* [id, round_number, match_number, display_index, next_round_number,
\*  next_display_index]
finalize_bracket_rounds(ms) ==
    LET rounds_sorted == SortedSeq(list_round_numbers(ms))
        linked(round_number, next_round, views) ==
            {[id |-> views[i].id, round_number |-> round_number,
              match_number |-> views[i].match_number,
              display_index |-> views[i].display_index,
              next_round_number |-> next_round,
              next_display_index |->
                  _compute_next_display_index(
                      round_number,
                      IF next_round = <<>> THEN <<>>
                      ELSE <<Len(get_round_matches(ms, next_round[1]))>>,
                      views[i])] :
                i \in DOMAIN views}
        round_views(idx) ==
            linked(rounds_sorted[idx],
                   IF idx + 1 <= Len(rounds_sorted)
                   THEN <<rounds_sorted[idx + 1]>> ELSE <<>>,
                   _normalize_round_matches(
                       get_round_matches(ms, rounds_sorted[idx]),
                       rounds_sorted[idx]))
    IN  UNION {round_views(idx) : idx \in DOMAIN rounds_sorted}

----------------------------------------------------------------------------
(* Bracket preview                                                         *)

\* a preview seeded from standings that count playoff results
preview_seeds_with_playoffs(ms) ==
    LET seeds_of(rankings) == [i \in DOMAIN rankings |-> rankings[i].player_id]
    IN  seeds_of(calculate_rankings(ms, TRUE))

\* seeds of build_playoff_preview: the regular-season standings
preview_seeds(ms) ==
    LET seeds_of(rankings) == [i \in DOMAIN rankings |-> rankings[i].player_id]
    IN  seeds_of(calculate_rankings(ms, FALSE))

\* one entry of the preview
PreviewEntry(round, number, p1, p2) ==
    [playoff_round |-> round, match_number |-> number,
     player1_id |-> p1, player2_id |-> p2]

\* the placeholder rounds 2, 3, ... the two while loops of the preview add
\* after a round of current_round_teams matches
RECURSIVE preview_placeholders(_, _)
preview_placeholders(current_round_teams, current_round_number) ==
    IF current_round_teams <= 1 THEN {}
    ELSE {PreviewEntry(current_round_number, i + 1, NULL, NULL) :
             i \in 0..((current_round_teams \div 2) - 1)}
         \cup preview_placeholders(current_round_teams \div 2,
                                   current_round_number + 1)

\* build_playoff_preview: the entries of all rounds
build_playoff_preview(ms) ==
    LET power_of_two(seeds, pair_count) ==
            {PreviewEntry(1, slot + 1, seeds[slot + 1], seeds[Len(seeds) - slot]) :
                slot \in 0..(pair_count - 1)}
            \cup preview_placeholders(pair_count, 2)
        play_in_matches(meta) ==
            {PreviewEntry(0, meta[idx].target_seed, meta[idx].player1_id,
                          meta[idx].player2_id) : idx \in DOMAIN meta}
        round_one_matches(seeds, target_bracket_size, num_byes) ==
            {LET seed1 == match_index
                 seed2 == target_bracket_size + 1 - match_index
             IN  PreviewEntry(1, match_index,
                    IF seed1 <= num_byes THEN seeds[seed1] ELSE NULL,
                    IF seed2 <= num_byes THEN seeds[seed2] ELSE NULL) :
                match_index \in 1..(target_bracket_size \div 2)}
        with_play_ins(seeds, target_bracket_size, num_byes) ==
            play_in_matches(generate_play_in_matches_metadata(
                                seeds, target_bracket_size, num_byes))
            \cup round_one_matches(seeds, target_bracket_size, num_byes)
            \cup preview_placeholders(target_bracket_size \div 2, 2)
        preview(seeds, num_players) ==
            IF num_players < 2 THEN {}
            ELSE IF IsPowerOfTwo(num_players)
                THEN power_of_two(seeds, num_players \div 2)
            ELSE with_play_ins(seeds, HighBit(num_players),
                               2 * HighBit(num_players) - num_players)
        seeded(seeds) == preview(seeds, Len(seeds))
    IN  seeded(preview_seeds(ms))

\* GET /playoffs: the page reads the rows and the standings and builds the
\* preview; it executes no INSERT, UPDATE or DELETE and does not commit
ViewPlayoffs ==
    /\ build_playoff_preview(matches) \in SUBSET
          [playoff_round : Nat, match_number : Nat,
           player1_id : DOMAIN players \cup {NULL},
           player2_id : DOMAIN players \cup {NULL}]
    /\ UNCHANGED vars

\* the bracket engine with visitors of the playoffs page
NextViewed ==
    \/ AdminForcePlayoffs
    \/ ReportMatch
    \/ AdminAdvancePlayoffRound
    \/ ViewPlayoffs

SpecViewed == Init /\ [][NextViewed]_vars

----------------------------------------------------------------------------
(* The retry loops of the scheduler, counted                               *)

\* _build_week_matching(players, used_pairs, max_backtracks=500)
max_backtracks == 500
\* generate_reseeded_weeks(..., max_attempts=200)
max_attempts == 200

\* A retry loop is followed through its passes.  A loop state is
\* [attempts, running, found]: the attempts made, whether the loop is still
\* running, and whether it returned a result.  One pass of a running loop
\* either leaves it (its test `attempts < limit` fails: None is returned)
\* or makes one more attempt, which returns a result when can_find and
\* goes on when can_miss.
retry_pass(S, limit, can_find, can_miss) ==
    LET body(s) ==
            IF ~(s.attempts < limit)
            THEN {[s EXCEPT !.running = FALSE]}
            ELSE (IF can_find
                  THEN {[attempts |-> s.attempts + 1, running |-> FALSE,
                         found |-> TRUE]}
                  ELSE {})
                 \cup (IF can_miss
                       THEN {[attempts |-> s.attempts + 1, running |-> TRUE,
                              found |-> FALSE]}
                       ELSE {})
    IN  {s \in S : ~s.running} \cup UNION {body(s) : s \in {r \in S : r.running}}

\* the loop states after n passes from the states S: the first half of the
\* passes is run to its states before the second half starts from them
RECURSIVE retry_passes(_, _, _, _, _)
retry_passes(n, S, limit, can_find, can_miss) ==
    LET second_half(reached) ==
            IF reached = {} THEN {}
            ELSE retry_passes(n \div 2, reached, limit, can_find, can_miss)
    IN  IF n = 0 THEN S
        ELSE IF n = 1 THEN retry_pass(S, limit, can_find, can_miss)
        ELSE second_half(retry_passes(n - (n \div 2), S, limit,
                                      can_find, can_miss))

\* the loop states of _build_week_matching n passes after its call;
\* an attempt is one shuffle handed to _match_week
_build_week_matching_attempts(roster, used_pairs, n) ==
    LET participants == IF Cardinality(roster) % 2 # 0
                        THEN roster \cup {NULL} ELSE roster
        loop(results) ==
            retry_passes(n, {[attempts |-> 0, running |-> TRUE, found |-> FALSE]},
                         max_backtracks,
                         \E r \in results : r # {}, {} \in results)
    IN  loop({_match_week(shuffled, used_pairs, <<>>) :
                 shuffled \in Shuffles(participants)})

\* the loop states of generate_reseeded_weeks n passes after its call; an
\* attempt is one whole plan of weeks_needed weeks
generate_reseeded_weeks_attempts(player_ids, existing_pairs, weeks_needed, n) ==
    IF weeks_needed <= 0 \/ Cardinality(player_ids) < 2
    THEN {[attempts |-> 0, running |-> FALSE, found |-> TRUE]}
    ELSE retry_passes(n, {[attempts |-> 0, running |-> TRUE, found |-> FALSE]},
             max_attempts,
             attempt_weeks(player_ids, existing_pairs, weeks_needed, <<>>) # {},
             attempt_can_fail(player_ids, existing_pairs, weeks_needed))

\* a call of advance_playoff_winners(db) with the default depth
AdvancePlayoffWinners ==
    /\ LET returned(out) ==
               /\ matches' = out.ms
               /\ next_match_id' = out.next_id
       IN  returned(advance_playoff_winners(matches, next_match_id, 0))
    /\ UNCHANGED <<players, current_playoff_round, current_week>>

\* seasons of any used pairs whose weeks are changed and whose bracket is
\* built, reported and advanced by advance_playoff_winners
NextBounded ==
    \/ AdminUpdateWeek
    \/ AdminForcePlayoffs
    \/ ReportMatch
    \/ AdvancePlayoffWinners

\* the largest roster of such a season
MaxBoundedRoster == 3

InitBounded ==
    /\ \E n \in MinPlayers..MaxBoundedRoster :
         /\ players = Roster(n)
         /\ \E pairs \in SUBSET {pr \in SUBSET (1..n) : Cardinality(pr) = 2} :
              /\ matches = CreatedSeason(pairs, 2 * (n \div 2) + 1)
              /\ next_match_id = Cardinality(pairs) + 1
    /\ current_playoff_round = -1
    /\ current_week = 1

SpecBounded == InitBounded /\ [][NextBounded]_vars

----------------------------------------------------------------------------
(* A bracket advanced by advance_playoff_winners                           *)

\* the league of Init whose bracket is built, reported and advanced by
\* calls of advance_playoff_winners instead of the admin's advance
NextAuto ==
    \/ AdminForcePlayoffs
    \/ ReportMatch
    \/ AdvancePlayoffWinners

SpecAuto == Init /\ [][NextAuto]_vars

----------------------------------------------------------------------------
(* Vocabulary of the properties                                            *)

NumPlayers == Cardinality(DOMAIN players)

\* the seed order: the players by rank in the regular-season standings
SeedOrder ==
    LET rankings == calculate_rankings(matches, FALSE)
    IN  [k \in DOMAIN rankings |-> rankings[k].player_id]

PowerOfTwo(n) == \E e \in 0..n : 2 ^ e = n

\* the largest power of two below a field size that is not one
TargetSize(n) == CHOOSE t \in 1..n : PowerOfTwo(t) /\ t < n /\ n < 2 * t

PlayInGames(n) == n - TargetSize(n)

Byes(n) == TargetSize(n) - PlayInGames(n)

RoundRows(ms, r) == {m \in ms : m.playoff = 1 /\ m.playoff_round = r}

Unreported(m) ==
    /\ m.reported = 0 /\ m.score1 = NULL /\ m.score2 = NULL
    /\ m.games = NoGames /\ m.double_forfeit = 0

\* a step of createBracket that built a bracket
BuildStep == AdminForcePlayoffs /\ matches' # matches

\* the state is the one createBracket has just left
JustBuilt ==
    /\ PlayoffMatches(matches) # {}
    /\ \E id \in 1..next_match_id :
          LET made == create_playoff_bracket(matches, id)
          IN  /\ made.ms = matches
              /\ made.next_id = next_match_id
              /\ made.round = current_playoff_round

----------------------------------------------------------------------------
(* C1: for a field of N >= 2 players with N a power of two, createBracket  *)
(* persists no round-0 match and exactly N/2 round-1 matches; the match    *)
(* numbered k pairs seed k (player 1) with seed N+1-k (player 2); all are  *)
(* unreported and the round setting becomes 1.                             *)
C1_Post(seed, ms, round) ==
    LET n == Len(seed)
        round1 == RoundRows(ms, 1)
    IN  /\ RoundRows(ms, 0) = {}
        /\ PlayoffMatches(ms) = round1
        /\ Cardinality(round1) = n \div 2
        /\ \A k \in 1..(n \div 2) :
              \E m \in round1 :
                  /\ m.match_number = k
                  /\ m.player1_id = seed[k]
                  /\ m.player2_id = seed[n + 1 - k]
        /\ \A m \in round1 : Unreported(m)
        /\ round = 1

C1_PowerOfTwoBracket ==
    [][(BuildStep /\ NumPlayers >= 2 /\ PowerOfTwo(NumPlayers))
          => C1_Post(SeedOrder, matches', current_playoff_round')]_vars

\* a bracket for eight players has just been built
C1_Witness ==
    /\ NumPlayers = 8
    /\ JustBuilt
    /\ current_playoff_round = 1
    /\ Cardinality(RoundRows(matches, 1)) = 4

(* C2: for a field of N >= 3 players with N not a power of two,            *)
(* createBracket persists exactly playInGames round-0 matches; the i-th    *)
(* pairs seed byes+i with seed N+1-i and carries match_number byes+i, the  *)
(* better of its two seeds; the round setting becomes 0.                   *)
C2_Post(seed, ms, round) ==
    LET n == Len(seed)
        round0 == RoundRows(ms, 0)
        games == PlayInGames(n)
        byes == Byes(n)
    IN  /\ Cardinality(round0) = games
        /\ \A i \in 1..games :
              \E m \in round0 :
                  /\ m.match_number = byes + i
                  /\ m.player1_id = seed[byes + i]
                  /\ m.player2_id = seed[n + 1 - i]
                  /\ byes + i < n + 1 - i
                  /\ Unreported(m)
        /\ round = 0

C2_PlayInBracket ==
    [][(BuildStep /\ NumPlayers >= 3 /\ ~PowerOfTwo(NumPlayers))
          => C2_Post(SeedOrder, matches', current_playoff_round')]_vars

\* a bracket with two play-in games (six players) has just been built
C2_Witness ==
    /\ NumPlayers = 6
    /\ JustBuilt
    /\ current_playoff_round = 0
    /\ Cardinality(RoundRows(matches, 0)) = 2

(* C3: for a field that is not a power of two, createBracket persists      *)
(* exactly targetSize/2 round-1 matches; the match numbered k holds seed k *)
(* in slot 1 and seed targetSize+1-k in slot 2, a slot being null exactly  *)
(* when its seed exceeds byes; hence the k-th best bye seed meets the      *)
(* winner of the play-in with the k-th highest target seed (seed 1 the     *)
(* play-in whose target seed is targetSize).                               *)
C3_Post(seed, ms) ==
    LET n == Len(seed)
        t == TargetSize(n)
        byes == Byes(n)
        round0 == RoundRows(ms, 0)
        round1 == RoundRows(ms, 1)
        slot(s) == IF s > byes THEN NULL ELSE seed[s]
    IN  /\ Cardinality(round1) = t \div 2
        /\ \A k \in 1..(t \div 2) :
              \E m \in round1 :
                  /\ m.match_number = k
                  /\ m.player1_id = slot(k)
                  /\ m.player2_id = slot(t + 1 - k)
        /\ \A k \in 1..PlayInGames(n) :
              k <= byes =>
                  \E m \in round1 :
                      /\ m.player1_id = seed[k]
                      /\ m.player2_id = NULL
                      /\ \E g \in round0 :
                            /\ g.match_number = t + 1 - m.match_number
                            /\ Cardinality({h \in round0 :
                                  h.match_number > g.match_number}) = k - 1

C3_RoundOneSlots ==
    [][(BuildStep /\ NumPlayers >= 3 /\ ~PowerOfTwo(NumPlayers))
          => C3_Post(SeedOrder, matches')]_vars

\* a bracket for seven players has just been built: one bye seed, and a
\* round-1 match with both slots open
C3_Witness ==
    /\ NumPlayers = 7
    /\ JustBuilt
    /\ \E m \in RoundRows(matches, 1) :
          m.player1_id = NULL /\ m.player2_id = NULL
    /\ \E m \in RoundRows(matches, 1) :
          m.player1_id = SeedOrder[1] /\ m.player2_id = NULL

\* the rows of a set in match_number order
RECURSIVE OrderByNumber(_)
OrderByNumber(S) ==
    IF S = {} THEN <<>>
    ELSE LET m == CHOOSE x \in S :
                    \A y \in S :
                        \/ x.match_number < y.match_number
                        \/ x.match_number = y.match_number /\ x.id <= y.id
         IN  <<m>> \o OrderByNumber(S \ {m})

\* the winners of a set of rows, in match_number order
WinnersInOrder(S) ==
    LET ordered == OrderByNumber(S)
    IN  SelectSeq([i \in DOMAIN ordered |-> determine_winner(ordered[i])],
                  Truthy)

\* what advanceRound would do in the current state
Advanced ==
    admin_advance_playoff_round(matches, next_match_id, current_playoff_round)

(* C4: for every field that is not a power of two (including N = 3, 5 and  *)
(* 9), when the round setting is 0 and all play-in matches are reported,   *)
(* advanceRound fills every null round-1 slot with the winner of the       *)
(* play-in whose match_number equals the seed number of the slot, leaves   *)
(* the filled slots unchanged and sets the round setting to 1.             *)
C4_PlayInWinnersFill ==
    LET n == NumPlayers
        round0 == RoundRows(matches, 0)
        round1 == RoundRows(matches, 1)
    IN  (/\ n >= 3 /\ ~PowerOfTwo(n)
         /\ current_playoff_round = 0
         /\ Cardinality(round0) = PlayInGames(n)
         /\ Cardinality(round1) = TargetSize(n) \div 2
         /\ \A g \in round0 : g.reported = 1)
        =>
        LET t == TargetSize(n)
            winner_of(seed_no) ==
                determine_winner(
                    CHOOSE g \in round0 : g.match_number = seed_no)
        IN  /\ Advanced.round = 1
            /\ \A m \in round1 :
                  \E filled \in Advanced.ms :
                      /\ filled.id = m.id
                      /\ filled.player1_id =
                            IF m.player1_id = NULL
                            THEN winner_of(m.match_number)
                            ELSE m.player1_id
                      /\ filled.player2_id =
                            IF m.player2_id = NULL
                            THEN winner_of(t + 1 - m.match_number)
                            ELSE m.player2_id

(* C5: advanceRound sets the round setting to complete (-1) only when the  *)
(* current round has exactly one winner and no playoff match exists in a   *)
(* higher round; it never completes the tournament out of round 0 while    *)
(* round-1 matches exist.                                                  *)
C5_CompletesOnlyAtFinal ==
    (current_playoff_round >= 0 /\ Advanced.round = -1)
    =>
    /\ Len(WinnersInOrder(RoundRows(matches, current_playoff_round))) = 1
    /\ ~\E m \in PlayoffMatches(matches) :
            m.playoff_round > current_playoff_round
    /\ ~(current_playoff_round = 0 /\ RoundRows(matches, 1) # {})

(* C6: once a bracket exists, every open match is eventually reported with *)
(* a valid score and the admin keeps advancing, the round setting takes    *)
(* the values (0,) 1, 2, ..., F in strictly increasing order, the Final F  *)
(* holds exactly one match, and the setting then becomes complete (-1).    *)
(* Stated on the steps: the round setting only moves from r to r + 1, or   *)
(* from a round r >= 1 with exactly one match and no later round to -1.    *)
C6_RoundsInOrder ==
    [][(current_playoff_round >= 0
        /\ current_playoff_round' # current_playoff_round)
       =>
       \/ /\ current_playoff_round' = current_playoff_round + 1
          /\ RoundRows(matches', current_playoff_round') # {}
       \/ /\ current_playoff_round' = -1
          /\ current_playoff_round >= 1
          /\ Cardinality(RoundRows(matches, current_playoff_round)) = 1
          /\ ~\E m \in PlayoffMatches(matches) :
                  m.playoff_round > current_playoff_round]_vars

(* C7: advanceRound is rejected and changes nothing when the round setting *)
(* is negative, when the current round has no matches, when a match of the *)
(* current round with two participants is unreported, or when the current  *)
(* round has no winner.                                                    *)
C7_RejectedAdvanceChangesNothing ==
    LET r == current_playoff_round
        rows == RoundRows(matches, r)
    IN  (\/ r < 0
         \/ rows = {}
         \/ \E m \in rows : m.player2_id # NULL /\ m.reported # 1
         \/ WinnersInOrder(rows) = <<>>)
        =>
        /\ Advanced.ms = matches
        /\ Advanced.round = r
        /\ Advanced.next_id = next_match_id
        /\ Advanced.flash \in
              {"Playoffs are not currently active.",
               "No matches found for the active playoff round.",
               "Cannot advance: match(es) are still unreported.",
               "Cannot advance: No winners recorded in the current round."}

\* the active round is complete, every match of it lost by both sides'
\* empty slots: advancing is refused for want of a winner
C7_Witness ==
    LET rows == RoundRows(matches, current_playoff_round)
    IN  /\ current_playoff_round >= 0
        /\ rows # {}
        /\ \A m \in rows : m.player2_id = NULL \/ m.reported = 1
        /\ WinnersInOrder(rows) = <<>>
        /\ Advanced.flash =
              "Cannot advance: No winners recorded in the current round."

(* C8: advancing a complete round r >= 1 with w >= 2 winners, when no      *)
(* match of round r + 1 exists, creates ceil(w/2) matches in round r + 1,  *)
(* the j-th pairing winners 2j-1 and 2j in match-number order; with odd w  *)
(* the last one has a null player 2 and is created reported 0-0; the round *)
(* setting becomes r + 1.                                                  *)
C8_NextRoundPairsWinners ==
    LET r == current_playoff_round
        rows == RoundRows(matches, r)
        winners == WinnersInOrder(rows)
        w == Len(winners)
    IN  (/\ r >= 1
         /\ rows # {}
         /\ \A m \in rows : m.player2_id = NULL \/ m.reported = 1
         /\ w >= 2
         /\ RoundRows(matches, r + 1) = {})
        =>
        LET created == Advanced.ms \ matches
            count == (w + 1) \div 2
        IN  /\ Advanced.round = r + 1
            /\ matches \subseteq Advanced.ms
            /\ created = RoundRows(Advanced.ms, r + 1)
            /\ Cardinality(created) = count
            /\ \A j \in 1..count :
                  \E m \in created :
                      /\ m.match_number = j
                      /\ m.player1_id = winners[2 * j - 1]
                      /\ IF 2 * j <= w
                         THEN m.player2_id = winners[2 * j] /\ Unreported(m)
                         ELSE /\ m.player2_id = NULL
                              /\ m.reported = 1
                              /\ m.score1 = 0
                              /\ m.score2 = 0

\* a complete round with three winners has just been advanced: the new
\* round has a match of two winners and a trailing bye
C8_Witness ==
    LET r == current_playoff_round
        before == {m \in matches : ~(m.playoff = 1 /\ m.playoff_round = r)}
        made == admin_advance_playoff_round(
                    before, next_match_id - 2, r - 1)
    IN  /\ r >= 2
        /\ Len(WinnersInOrder(RoundRows(matches, r - 1))) = 3
        /\ made.ms = matches
        /\ made.round = r
        /\ \E m \in RoundRows(matches, r) :
              m.player2_id = NULL /\ m.reported = 1

(* C9: advancement is idempotent: from any reachable state, advancing      *)
(* twice in succession with no report in between (the admin advance or     *)
(* advance_playoff_winners) leaves the state the first advance left.       *)
C9_AdvanceIdempotent ==
    LET once == Advanced
        twice == admin_advance_playoff_round(once.ms, once.next_id,
                                             once.round)
        auto_once == advance_playoff_winners(matches, next_match_id, 0)
        auto_twice == advance_playoff_winners(auto_once.ms,
                                              auto_once.next_id, 0)
    IN  /\ twice.ms = once.ms
        /\ twice.round = once.round
        /\ twice.next_id = once.next_id
        /\ auto_twice.ms = auto_once.ms
        /\ auto_twice.next_id = auto_once.next_id

(* C10: in every reachable state, every match whose player 2 is null is    *)
(* reported with score 0-0.                                                *)
C10_ByesReported ==
    \A m \in matches :
        m.player2_id = NULL =>
            m.reported = 1 /\ m.score1 = 0 /\ m.score2 = 0

(* C11: champion lookup returns player p if and only if the playoff round  *)
(* containing exactly one match holds a match with two participants that   *)
(* is reported and has p as its strict winner; it returns no champion when *)
(* there is no single-match round, when that match is unreported or has a  *)
(* null participant, or when its outcome is tied.  Stated for the states   *)
(* in which at most one round holds exactly one match.                     *)
C11_ChampionLookup ==
    LET single == {r \in {m.playoff_round : m \in PlayoffMatches(matches)} :
                      Cardinality(RoundRows(matches, r)) = 1}
        champion == get_playoff_champion(matches)
    IN  Cardinality(single) <= 1 =>
        /\ \A p \in DOMAIN players :
              champion = p <=>
                  \E r \in single : \E m \in RoundRows(matches, r) :
                      /\ m.player1_id # NULL /\ m.player2_id # NULL
                      /\ m.reported = 1
                      /\ determine_winner(m) = p
        /\ champion \in DOMAIN players \cup {NULL}

(* C12: score reporting is a compare-and-set on the reported flag: a       *)
(* report against a match that is already reported is rejected and changes *)
(* nothing, so the stored scores of a reported match are never overwritten *)
(* by a later (or concurrent second) report.                               *)
C12_ReportCompareAndSet ==
    [][ReportMatch => \A m \in matches : m.reported = 1 => m \in matches']_vars

----------------------------------------------------------------------------
(* C13                                                                     *)

\* the games a form fills in, in order: the rows that are not left empty
FilledGames(form) ==
    SelectSeq(form, LAMBDA g : ~(g[1] = BLANK /\ g[2] = BLANK))

\* the form is a best-of-three result: at least two games, every score an
\* integer in 0..99, no tied game, one side with exactly two game wins and
\* the other with at most one
BestOfThreeForm(form) ==
    LET games == FilledGames(form)
        won1 == Cardinality({i \in DOMAIN games : games[i][1] > games[i][2]})
        won2 == Cardinality({i \in DOMAIN games : games[i][2] > games[i][1]})
    IN  /\ Len(games) >= 2
        /\ \A i \in DOMAIN games :
              /\ games[i][1] \in 0..99
              /\ games[i][2] \in 0..99
              /\ games[i][1] # games[i][2]
        /\ \/ won1 = 2 /\ won2 <= 1
           \/ won2 = 2 /\ won1 <= 1

\* game wins of a stored match, counted on its stored per-game scores
StoredGameWins(m) ==
    << Cardinality({i \in 1..MAX_GAMES : m.games[i][1] # NULL /\ m.games[i][2] # NULL /\ m.games[i][1] > m.games[i][2]}),
       Cardinality({i \in 1..MAX_GAMES : m.games[i][1] # NULL /\ m.games[i][2] # NULL /\ m.games[i][2] > m.games[i][1]}) >>

\* C13: score reporting and the admin edit accept a form only if it is a
\* best-of-three result (at least two games, integer scores in 0..99, no
\* tied game, one side with exactly two game wins, the other with at most
\* one); a rejected form changes no stored field; and every match that was
\* reported through them has game wins (2,0), (2,1), (0,2) or (1,2).
C13_BestOfThreeOnly ==
    /\ \A m \in matches : \A form \in ScoreForms :
          /\ LET out == report_match(matches, current_playoff_round, current_week, m.id, form)
             IN  IF out.flash = "Match score saved successfully."
                 THEN BestOfThreeForm(form)
                 ELSE out.ms = matches
          /\ LET out == admin_edit_match(matches, m.id, form)
             IN  IF out.flash = "Match scores updated successfully."
                 THEN BestOfThreeForm(form)
                 ELSE out.ms = matches
    /\ \A m \in matches :
          m.reported = 1 /\ m.player2_id # NULL =>
              StoredGameWins(m) \in {<<2, 0>>, <<2, 1>>, <<0, 2>>, <<1, 2>>}

\* a match stored after three games, two of them won by player 2
C13_Witness ==
    \E m \in matches :
        /\ m.reported = 1
        /\ m.player2_id # NULL
        /\ StoredGameWins(m) = <<1, 2>>
        /\ m.games[3] # <<NULL, NULL>>

----------------------------------------------------------------------------
(* C14                                                                     *)

\* C14: the winner of a match record is decided in this order: a null
\* player 2 gives player 1; otherwise an unreported match gives null;
\* otherwise a double forfeit gives null; otherwise, with per-game scores,
\* the side with strictly more game wins (null if equal); otherwise the
\* side with the strictly greater stored aggregate (null if the aggregates
\* are equal or one of them is null).
C14_WinnerOrder ==
    \A m \in matches :
        LET winner == determine_winner(m)
            wins == StoredGameWins(m)
            per_game == \E i \in 1..MAX_GAMES : m.games[i][1] # NULL /\ m.games[i][2] # NULL
            decided == m.player2_id # NULL /\ m.reported # 0 /\ m.double_forfeit = 0
        IN  /\ m.player2_id = NULL => winner = m.player1_id
            /\ m.player2_id # NULL /\ m.reported = 0 => winner = NULL
            /\ m.player2_id # NULL /\ m.reported # 0 /\ m.double_forfeit # 0 => winner = NULL
            /\ decided /\ per_game /\ wins[1] > wins[2] => winner = m.player1_id
            /\ decided /\ per_game /\ wins[2] > wins[1] => winner = m.player2_id
            /\ decided /\ per_game /\ wins[1] = wins[2] => winner = NULL
            /\ decided /\ ~per_game /\ m.score1 # NULL /\ m.score2 # NULL /\ m.score1 > m.score2 => winner = m.player1_id
            /\ decided /\ ~per_game /\ m.score1 # NULL /\ m.score2 # NULL /\ m.score2 > m.score1 => winner = m.player2_id
            /\ decided /\ ~per_game /\ (m.score1 = NULL \/ m.score2 = NULL \/ m.score1 = m.score2) => winner = NULL

\* a reported row whose game wins favour player 2 while its stored aggregate
\* favours player 1: the game wins decide
C14_Witness ==
    \E m \in matches :
        /\ m.player2_id # NULL /\ m.player1_id # NULL
        /\ m.reported = 1 /\ m.double_forfeit = 0
        /\ StoredGameWins(m) = <<1, 2>>
        /\ m.score1 = 22 /\ m.score2 = 21
        /\ determine_winner(m) = m.player2_id

----------------------------------------------------------------------------
(* C16                                                                     *)

RegularMatches == {m \in matches : m.playoff = 0}

\* C16: in every state the regular-season routes reach, no unordered pair
\* of players has two regular-season matches and no player has two
\* regular-season matches in the same week.
C16_NoRepeatedPairing ==
    \A m1 \in RegularMatches : \A m2 \in RegularMatches :
        m1.id # m2.id =>
            /\ ~(/\ m1.player1_id # NULL /\ m1.player2_id # NULL
                 /\ {m1.player1_id, m1.player2_id} = {m2.player1_id, m2.player2_id})
            /\ m1.week = m2.week =>
                  ({m1.player1_id, m1.player2_id} \cap {m2.player1_id, m2.player2_id}) \subseteq {NULL}

----------------------------------------------------------------------------
(* C17                                                                     *)

\* a step that generates weeks: schedule regeneration or a week change
GenerationStep == AdminGenerateSchedule \/ AdminUpdateWeek

\* the rows such a step inserted for week w
GeneratedRows(w) ==
    {m \in matches' : m.id >= next_match_id /\ m.playoff = 0 /\ m.week = w}

IsStoredBye(m) ==
    /\ m.player1_id # NULL
    /\ m.player2_id = NULL
    /\ m.reported = 1
    /\ m.score1 = 0
    /\ m.score2 = 0

\* C17: a generated week is persisted, for an odd roster, with exactly one
\* bye, stored as a match of a real player 1 and a null player 2 that is
\* already reported 0-0, every other match of the week having two players
\* and being unreported; for an even roster no bye is persisted.
C17_OneStoredBye ==
    [][GenerationStep =>
          \A w \in 1..MAX_WEEKS :
              GeneratedRows(w) # {} =>
                  /\ Cardinality({m \in GeneratedRows(w) : IsStoredBye(m)})
                         = Cardinality(DOMAIN players) % 2
                  /\ \A m \in GeneratedRows(w) :
                        \/ IsStoredBye(m)
                        \/ /\ m.player1_id # NULL
                           /\ m.player2_id # NULL
                           /\ m.reported = 0]_vars

----------------------------------------------------------------------------
(* C18                                                                     *)

\* the error the week generation returns when the scheduler finds no week
SchedulerFailed(flash) ==
    flash = "Unable to generate a conflict-free schedule for the next week."

\* C18: when the scheduler cannot produce a conflict-free week during a
\* week change or a schedule generation, the route ends with that error
\* and everything it did is rolled back: the current week is unchanged and
\* the matches table is what it was (no match forfeited, inserted or
\* deleted).
C18_FailedGenerationRolledBack ==
    /\ \A new_week \in 0..MaxWeek : \A confirm \in BOOLEAN :
          \A out \in admin_update_week(matches, next_match_id, players, current_week, new_week, confirm) :
              SchedulerFailed(out.flash) =>
                  out.ms = matches /\ out.week = current_week
    /\ \A confirm \in BOOLEAN :
          \A out \in admin_generate_schedule(matches, next_match_id, players, current_week, confirm) :
              SchedulerFailed(out.flash) =>
                  out.ms = matches /\ out.week = current_week

\* a state in which a confirmed week change would forfeit a match and then
\* finds no week to generate
C18_Witness ==
    \E new_week \in 1..MaxWeek :
        /\ ToForfeit(matches, get_current_week(current_week), new_week) # {}
        /\ \E out \in admin_update_week(matches, next_match_id, players, current_week, new_week, TRUE) :
              /\ SchedulerFailed(out.flash)
              /\ out.ms = matches

----------------------------------------------------------------------------
(* C15                                                                     *)

\* how often player p appears in a week of a schedule
Appearances(week_matches, p) ==
    Cardinality({i \in DOMAIN week_matches : week_matches[i][1] = p})
    + Cardinality({i \in DOMAIN week_matches : week_matches[i][2] = p})

\* the positions of a week in which the real players p and q meet
Meetings(week_matches, p, q) ==
    {i \in DOMAIN week_matches :
        {week_matches[i][1], week_matches[i][2]} = {p, q}}

\* C15: for a roster of at least two players, any set of used pairs and
\* any number of weeks asked for, every schedule the scheduler returns has
\* no pair of real players that is among the used pairs or that meets
\* twice in the returned weeks, and in each returned week every player of
\* the roster appears exactly once.
C15_ScheduleConflictFree ==
    LET roster == collect_active_player_ids(players)
        used == _collect_existing_pairs(matches, roster)
    IN  \A weeks_needed \in 0..MaxWeeksNeeded :
            \A schedule \in generate_reseeded_weeks(roster, used, weeks_needed).schedules :
                /\ \A w \in DOMAIN schedule : \A p \in roster :
                      Appearances(schedule[w], p) = 1
                /\ \A p \in roster : \A q \in roster \ {p} :
                      /\ {p, q} \in used =>
                            \A w \in DOMAIN schedule : Meetings(schedule[w], p, q) = {}
                      /\ Cardinality({<<w, i>> \in (DOMAIN schedule) \X (1..Cardinality(roster)) :
                                         i \in Meetings(schedule[w], p, q)}) <= 1

\* four players, two of whose pairs are used, and a schedule of two weeks
\* returned for them
C15_Witness ==
    LET roster == collect_active_player_ids(players)
        used == _collect_existing_pairs(matches, roster)
    IN  /\ Cardinality(roster) = 4
        /\ Cardinality(used) = 2
        /\ \E schedule \in generate_reseeded_weeks(roster, used, 2).schedules :
              Len(schedule) = 2

----------------------------------------------------------------------------
(* C19                                                                     *)

\* row x may stand before row y in the standings: more wins; or equal wins
\* and a greater point differential; or these equal and more points scored;
\* or these equal and the smaller last name; or these equal and a first
\* name that is not greater
StandsBefore(x, y) ==
    \/ x.wins > y.wins
    \/ /\ x.wins = y.wins
       /\ \/ x.point_diff > y.point_diff
          \/ /\ x.point_diff = y.point_diff
             /\ \/ x.points_scored > y.points_scored
                \/ /\ x.points_scored = y.points_scored
                   /\ \/ x.last_name < y.last_name
                      \/ /\ x.last_name = y.last_name
                         /\ x.first_name <= y.first_name

\* C19: the standings hold every approved player exactly once, ordered by
\* descending wins, then descending point differential, then descending
\* points scored, then ascending last name, then ascending first name, and
\* the player at position i has rank i.
C19_StandingsOrder ==
    \A include_playoffs \in BOOLEAN :
        LET holds(standings) ==
                /\ Len(standings) = Cardinality(DOMAIN players)
                /\ {standings[i].player_id : i \in DOMAIN standings} = DOMAIN players
                /\ \A i \in DOMAIN standings :
                      /\ standings[i].rank = i
                      /\ standings[i].last_name = players[standings[i].player_id].last_name
                      /\ standings[i].first_name = players[standings[i].player_id].first_name
                      /\ \A j \in DOMAIN standings :
                            i < j => StandsBefore(standings[i], standings[j])
        IN  holds(calculate_rankings(matches, include_playoffs))

\* standings of three players in which the first two have equal wins and the
\* point differential decides against the points scored
C19_Witness ==
    LET reached(standings) ==
            /\ Len(standings) = 3
            /\ standings[1].wins = standings[2].wins
            /\ standings[1].point_diff > standings[2].point_diff
            /\ standings[1].points_scored < standings[2].points_scored
    IN  reached(calculate_rankings(matches, FALSE))

----------------------------------------------------------------------------
(* C20                                                                     *)

\* the matches the regular-season standings count
Counted ==
    {m \in matches : /\ m.reported = 1
                     /\ m.playoff = 0
                     /\ m.player1_id # NULL
                     /\ m.player2_id # NULL}

HasGameData(m) ==
    \E i \in 1..MAX_GAMES : m.games[i][1] # NULL /\ m.games[i][2] # NULL

\* the aggregate points of side k: the sum of its game scores, or without
\* per-game data its stored score (none counting as 0)
SidePoints(m, k) ==
    IF HasGameData(m)
    THEN SumSeq([i \in 1..MAX_GAMES |->
                    IF m.games[i][1] # NULL /\ m.games[i][2] # NULL
                    THEN m.games[i][k] ELSE 0])
    ELSE IF k = 1 THEN (IF m.score1 = NULL THEN 0 ELSE m.score1)
    ELSE (IF m.score2 = NULL THEN 0 ELSE m.score2)

\* the side a match is decided for, 0 when it has no strict decision
DecidedFor(m) ==
    IF HasGameData(m)
    THEN IF StoredGameWins(m)[1] > StoredGameWins(m)[2] THEN 1
         ELSE IF StoredGameWins(m)[2] > StoredGameWins(m)[1] THEN 2
         ELSE 0
    ELSE IF SidePoints(m, 1) > SidePoints(m, 2) THEN 1
         ELSE IF SidePoints(m, 2) > SidePoints(m, 1) THEN 2
         ELSE 0

\* the side of player p in match m, 0 when p does not play it
SideOf(m, p) ==
    IF m.player1_id = p THEN 1 ELSE IF m.player2_id = p THEN 2 ELSE 0

RECURSIVE PointsOver(_, _, _)
PointsOver(S, p, against) ==
    IF S = {} THEN 0
    ELSE LET m == CHOOSE x \in S : TRUE
             k == IF against THEN 3 - SideOf(m, p) ELSE SideOf(m, p)
         IN  SidePoints(m, k) + PointsOver(S \ {m}, p, against)

\* C20: each counted match adds to the standings as follows: a double
\* forfeit gives each side one loss and changes neither side's points
\* scored nor point differential; any other match adds each side's
\* aggregate points, and one win and one loss only when one side has
\* strictly more game wins (without per-game data, a strictly greater
\* aggregate), the win going to that side; a match with no strict decision
\* adds no win or loss.  So each player's row is the sum of these.
C20_MatchEffects ==
    LET played(p) == {m \in Counted : SideOf(m, p) # 0 /\ m.double_forfeit = 0}
        forfeited(p) == {m \in Counted : SideOf(m, p) # 0 /\ m.double_forfeit # 0}
        holds(standings) ==
            \A i \in DOMAIN standings :
                LET p == standings[i].player_id
                IN  /\ standings[i].wins =
                           Cardinality({m \in played(p) : DecidedFor(m) = SideOf(m, p)})
                    /\ standings[i].losses =
                           Cardinality(forfeited(p))
                           + Cardinality({m \in played(p) : DecidedFor(m) = 3 - SideOf(m, p)})
                    /\ standings[i].points_scored = PointsOver(played(p), p, FALSE)
                    /\ standings[i].point_diff =
                           PointsOver(played(p), p, FALSE) - PointsOver(played(p), p, TRUE)
    IN  holds(calculate_rankings(matches, FALSE))

\* a season in which a player has both a double forfeit and a match decided
\* on game wins
C20_Witness ==
    \E p \in DOMAIN players :
        /\ \E m \in Counted : SideOf(m, p) # 0 /\ m.double_forfeit = 1
        /\ \E m \in Counted : /\ SideOf(m, p) # 0 /\ m.double_forfeit = 0
                              /\ HasGameData(m) /\ DecidedFor(m) # 0
        /\ \E i \in 1..Cardinality(DOMAIN players) :
              /\ calculate_rankings(matches, FALSE)[i].player_id = p
              /\ calculate_rankings(matches, FALSE)[i].losses >= 1

----------------------------------------------------------------------------
(* C21                                                                     *)

\* the matches that name player p on either side
MatchesOf(p) == {m \in matches : m.player1_id = p \/ m.player2_id = p}

\* C21: deleting a player who has any reported two-participant match fails
\* and changes nothing; deleting a player who has zero reported matches
\* succeeds, removes the player and removes every match that references the
\* player.
C21_DeletePlayer ==
    \A p \in DOMAIN players :
        LET out == admin_delete_player(matches, players, p)
        IN  /\ (\E m \in MatchesOf(p) : m.reported = 1 /\ m.player2_id # NULL)
                  => out.ms = matches /\ out.ps = players
            /\ (\A m \in MatchesOf(p) : m.reported # 1)
                  => /\ DOMAIN out.ps = DOMAIN players \ {p}
                     /\ out.ms = matches \ MatchesOf(p)

----------------------------------------------------------------------------
(* C22                                                                     *)

\* C22: createBracket (rebuild) removes every previously existing playoff
\* match regardless of its reported state, so afterwards the playoff
\* matches are exactly the freshly generated round-0/round-1 rows, and it
\* leaves all regular-season matches, players and current_week unchanged.
C22_RebuildReplacesBracket ==
    [][BuildStep =>
          /\ \A m \in matches : m.playoff = 1 => \A x \in matches' : x.id # m.id
          /\ \A x \in matches' :
                x.playoff = 1 => /\ x.id >= next_match_id
                                 /\ x.playoff_round \in {0, 1}
                                 /\ Unreported(x)
          /\ {x \in matches' : x.playoff # 1} = {m \in matches : m.playoff # 1}
          /\ players' = players
          /\ current_week' = current_week]_vars

\* a bracket built a second time after the regular-season match beside it:
\* the ids of the first bracket are gone
C22_Witness ==
    \E r \in matches : \E p \in matches :
        /\ r.playoff = 0 /\ p.playoff = 1
        /\ \E gone \in (r.id + 1)..(p.id - 1) : \A x \in matches : x.id # gone

----------------------------------------------------------------------------
(* C23: bracket creation and round advancement are each atomic: if the     *)
(* operation fails after any of its intermediate steps, the persisted      *)
(* playoff matches and the round setting are exactly those from before the *)
(* call (never a bracket that is deleted but not rebuilt, nor a next round *)
(* that is created or filled without the round setting having advanced).   *)
C23_FailureRollsBack ==
    [][AdminForcePlayoffsFails \/ AdminAdvancePlayoffRoundFails =>
          /\ PlayoffMatches(matches') = PlayoffMatches(matches)
          /\ current_playoff_round' = current_playoff_round]_vars

----------------------------------------------------------------------------
(* C24: within one bracket, in every reachable state each (playoff_round,  *)
(* match_number) pair identifies at most one playoff match, every playoff  *)
(* match has a non-null match_number, and advancement and score reporting  *)
(* never change the match_number of an existing match.                     *)
C24_MatchNumbersStable ==
    /\ [](\A m \in PlayoffMatches(matches) :
             /\ m.match_number # NULL
             /\ \A x \in PlayoffMatches(matches) :
                   (x.playoff_round = m.playoff_round
                      /\ x.match_number = m.match_number) => x.id = m.id)
    /\ [][ReportMatch \/ AdminAdvancePlayoffRound =>
             \A m \in PlayoffMatches(matches) : \A x \in matches' :
                 x.id = m.id => x.match_number = m.match_number]_vars

\* a bracket with play-in games whose round 2 was created by advancement and
\* has a reported match
C24_Witness ==
    /\ RoundRows(matches, 0) # {}
    /\ \E m \in RoundRows(matches, 2) : m.reported = 1 /\ m.player2_id # NULL

----------------------------------------------------------------------------
(* C25                                                                     *)

\* match t of the next round is the one the connector of match m points to
ConnectorTarget(view, m, t) ==
    \E v \in view : \E w \in view :
        /\ v.id = m.id /\ w.id = t.id
        /\ v.next_round_number = <<w.round_number>>
        /\ v.next_display_index = <<w.display_index>>

\* a step of advancement that moved winners into the next round
PlacingStep == AdminAdvancePlayoffRound /\ matches' # matches

----------------------------------------------------------------------------
(* C26                                                                     *)

\* what a row or a preview entry shows of a slot
Slot(m) ==
    [playoff_round |-> m.playoff_round, match_number |-> m.match_number,
     player1_id |-> m.player1_id, player2_id |-> m.player2_id]

\* C26: for any standings with N >= 2 ranked players, the preview's round-0
\* and round-1 entries (participants in each slot, null slots,
\* match_number) are identical to the rows createBracket would persist for
\* the same standings, and building the preview writes nothing: match rows
\* and settings are unchanged.
C26_PreviewIsBracket ==
    /\ [](NumPlayers >= 2 =>
            LET same(preview, made) ==
                    {e \in preview : e.playoff_round \in {0, 1}}
                        = {Slot(m) : m \in PlayoffMatches(made.ms)}
            IN  same(build_playoff_preview(matches),
                     create_playoff_bracket(matches, next_match_id)))
    /\ [][ViewPlayoffs =>
             UNCHANGED <<matches, current_playoff_round, current_week>>]_vars

\* the preview of a field with play-in games, taken while the bracket in
\* the table has reported results
C26_Witness ==
    /\ \E e \in build_playoff_preview(matches) : e.playoff_round = 0
    /\ \E e \in build_playoff_preview(matches) :
          e.playoff_round = 1 /\ e.player2_id = NULL
    /\ \E m \in PlayoffMatches(matches) : m.reported = 1

----------------------------------------------------------------------------
(* C27: a score report is accepted for a regular-season match only when    *)
(* its week equals current_week and it is not a double forfeit, and for a  *)
(* playoff match only when the round setting is >= 0 and the match's       *)
(* playoff_round equals the currently open round; a match with null        *)
(* player2 is never reportable; a rejected report leaves the match         *)
(* unchanged.                                                              *)
C27_ReportOnlyOpenMatches ==
    [][ReportMatch =>
          \A m \in matches :
              m \notin matches' =>
                  /\ m.player2_id # NULL
                  /\ IF m.playoff = 1
                     THEN /\ current_playoff_round >= 0
                          /\ m.playoff_round = current_playoff_round
                     ELSE /\ m.week = get_current_week(current_week)
                          /\ m.double_forfeit = 0]_vars

----------------------------------------------------------------------------
(* C28                                                                     *)

\* a step of POST /admin/week that moved the current week forward
WeekAdvanceStep ==
    AdminUpdateWeek /\ current_week' > get_current_week(current_week)

\* the row as the auto-forfeit leaves it
Forfeited(m) ==
    [m EXCEPT !.reported = 1, !.double_forfeit = 1, !.score1 = 0,
              !.score2 = 0, !.games = NoGames]

\* C28: when the current week is advanced from c to n with
\* c < n <= MAX_WEEKS, exactly the regular-season matches with two
\* participants, c <= week < n and reported = false become reported double
\* forfeits with aggregate 0-0 and all per-game scores null;
\* already-reported matches, byes and playoff matches are unchanged; each
\* week in c+1..n that had no match gets a generated set of pairings; and
\* current_week becomes n.
C28_WeekAdvance ==
    [][WeekAdvanceStep =>
          /\ current_week' <= MAX_WEEKS
          /\ \A m \in matches :
                IF /\ m.playoff = 0
                   /\ m.player1_id # NULL /\ m.player2_id # NULL
                   /\ m.week >= get_current_week(current_week)
                   /\ m.week < current_week'
                   /\ m.reported = 0
                THEN Forfeited(m) \in matches' /\ m \notin matches'
                ELSE m \in matches'
          /\ \A w \in (get_current_week(current_week) + 1)..current_week' :
                ~_regular_week_exists(matches, w)
                    => _regular_week_exists(matches', w)]_vars

----------------------------------------------------------------------------
(* C30                                                                     *)

\* the roster with the bye placeholder added when it is odd
Padded(roster) ==
    IF Cardinality(roster) % 2 # 0 THEN roster \cup {NULL} ELSE roster

\* the participants of S can be split into pairs none of which is a used
\* pair of two real players
RECURSIVE HasPerfectMatching(_, _)
HasPerfectMatching(S, used) ==
    IF S = {} THEN TRUE
    ELSE LET a == CHOOSE x \in S : \A y \in S : x <= y
         IN  \E b \in S \ {a} :
                /\ a = NULL \/ {a, b} \notin used
                /\ HasPerfectMatching(S \ {a, b}, used)

\* C30: the single-week matcher is complete: for every roster (padded with
\* one bye placeholder when odd) and every set of used pairs,
\* _build_week_matching returns a pairing whenever some perfect matching of
\* the padded roster avoiding all used pairs exists, and reports failure
\* only when no such matching exists, independent of the shuffle order.
C30_MatcherComplete ==
    LET complete(roster, used) ==
            \A shuffled \in Shuffles(Padded(roster)) :
                (_match_week(shuffled, used, <<>>) # {})
                    <=> HasPerfectMatching(Padded(roster), used)
        on(roster) == complete(roster, _collect_existing_pairs(matches, roster))
    IN  on(collect_active_player_ids(players))

\* four players, two of whose pairs were used: the matcher paired them for
\* week 2, and of the two pairs left unused then it still finds the one
\* matching
C30_Witness ==
    LET last_matching(roster, used) ==
            /\ Cardinality(roster) = 4
            /\ Cardinality(used) = 4
            /\ HasPerfectMatching(roster, used)
            /\ Cardinality({WeekPairs(week_matches) :
                               week_matches \in _build_week_matching(roster, used)}) = 1
        on(roster) == last_matching(roster, _collect_existing_pairs(matches, roster))
    IN  /\ current_week = 2
        /\ next_match_id = 5
        /\ Cardinality({m \in matches : m.week = 2 /\ m.id >= 3}) = 2
        /\ on(collect_active_player_ids(players))

----------------------------------------------------------------------------
(* C29: every scheduler and advancement call terminates: week generation   *)
(* returns a schedule or a failure after at most 500 shuffled attempts per *)
(* week and at most 200 whole-plan attempts, and recursive                 *)
(* auto-advancement (advance_playoff_winners) stops after at most 10       *)
(* nested invocations and re-invokes itself only when the previous pass    *)
(* created or filled a match.                                              *)
C29_BoundedRetries ==
    LET scheduler(roster, used) ==
            /\ \A out \in _build_week_matching_attempts(roster, used, 501) :
                  ~out.running /\ out.attempts \in 1..500
            /\ \A weeks_needed \in 1..MaxWeeksNeeded :
                  \A out \in generate_reseeded_weeks_attempts(roster, used, weeks_needed, 201) :
                      ~out.running /\ out.attempts \in 1..200
        on(roster) == scheduler(roster, _collect_existing_pairs(matches, roster))
        advancement(calls) ==
            /\ Cardinality({i \in DOMAIN calls : calls[i].walked}) <= 10
            /\ \A i \in DOMAIN calls : i < Len(calls) => calls[i].created
    IN  /\ on(collect_active_player_ids(players))
        /\ advancement(advance_playoff_winners(matches, next_match_id, 0).calls)

\* the play-in of a bracket is reported and advance_playoff_winners has
\* filled round 1 with its winner, and for the roster of the same table the
\* scheduler returns a week at its first attempt
C29_Witness ==
    LET first_try(roster, used) ==
            \E out \in _build_week_matching_attempts(roster, used, 501) :
                out.found /\ out.attempts = 1
        on(roster) == first_try(roster, _collect_existing_pairs(matches, roster))
    IN  /\ RoundRows(matches, 0) # {}
        /\ \A m \in RoundRows(matches, 0) : m.reported = 1
        /\ RoundRows(matches, 1) # {}
        /\ \A m \in RoundRows(matches, 1) :
               /\ m.player2_id # NULL
               /\ \E r \in RoundRows(matches, 0) :
                      m.player2_id = determine_winner(r) \/ m.player1_id = determine_winner(r)
        /\ on(collect_active_player_ids(players))

----------------------------------------------------------------------------
(* C31: auto-advancement (advance_playoff_winners) never creates a match   *)
(* in round 2 or later while any play-in match is unreported: a bye seed   *)
(* is never advanced past round 1 without playing its play-in opponent.    *)
PlayInOpen(ms) == \E m \in RoundRows(ms, 0) : m.reported = 0

C31_NoRoundTwoBeforePlayIns ==
    [][(AdvancePlayoffWinners /\ PlayInOpen(matches))
          => \A m \in PlayoffMatches(matches') \ matches :
                 m.playoff_round < 2]_vars

----------------------------------------------------------------------------
(* C32: immediately after createBracket on N >= 2 ranked players, every    *)
(* ranked player occupies exactly one participant slot among the round-0   *)
(* and round-1 matches, the number of null round-1 slots equals the number *)
(* of round-0 matches (N - targetSize), and each null round-1 slot's seed  *)
(* number is the match_number of exactly one round-0 match.                *)

\* the participant slots <<match id, side, player>> of a set of rows
Slots(rows) ==
    {<<m.id, 1, m.player1_id>> : m \in rows}
        \cup {<<m.id, 2, m.player2_id>> : m \in rows}

\* the seed number of a slot of the round-1 match m among size seeds
SlotSeed(m, side, size) ==
    IF side = 1 THEN m.match_number ELSE size + 1 - m.match_number

\* the bracket size of a field: the field itself when a power of two
MainSize(n) == IF PowerOfTwo(n) THEN n ELSE TargetSize(n)

C32_Post(seed, ms) ==
    LET n == Len(seed)
        round0 == RoundRows(ms, 0)
        round1 == RoundRows(ms, 1)
        open == {s \in Slots(round1) : s[3] = NULL}
        row(id) == CHOOSE m \in round1 : m.id = id
    IN  /\ \A k \in 1..n :
              Cardinality({s \in Slots(round0 \cup round1) : s[3] = seed[k]}) = 1
        /\ Cardinality(open) = Cardinality(round0)
        /\ Cardinality(round0) = n - MainSize(n)
        /\ \A s \in open :
              Cardinality({m \in round0 :
                  m.match_number = SlotSeed(row(s[1]), s[2], MainSize(n))}) = 1

C32_EveryPlayerPlacedOnce ==
    [][(BuildStep /\ NumPlayers >= 2) => C32_Post(SeedOrder, matches')]_vars

\* a bracket for seven players has just been built: three play-ins and
\* three round-1 slots that await their winners
C32_Witness ==
    /\ NumPlayers = 7
    /\ JustBuilt
    /\ Cardinality({s \in Slots(RoundRows(matches, 1)) : s[3] = NULL}) = 3
    /\ Cardinality(RoundRows(matches, 0)) = 3

----------------------------------------------------------------------------
(* C33: in every reachable state, each non-null participant of a playoff   *)
(* match in round r+1 is the current winner (per determine_winner) of a    *)
(* match in round r, or, for round 1, a bye seed placed at creation; a new *)
(* score for a match of an earlier round cannot leave in a later round a   *)
(* player who is not the winner of that earlier match.                     *)

\* the participants of a row
Participants(m) == {m.player1_id, m.player2_id} \ {NULL}

\* p stands in round 1 as a bye seed: no play-in has p as a participant
ByeSeed(ms, p) == \A q \in RoundRows(ms, 0) : p \notin Participants(q)

C33_LaterRoundsHoldWinners ==
    \A m \in PlayoffMatches(matches) :
        m.playoff_round >= 1 =>
            \A p \in Participants(m) :
                \/ \E q \in RoundRows(matches, m.playoff_round - 1) :
                       determine_winner(q) = p
                \/ m.playoff_round = 1 /\ ByeSeed(matches, p)

----------------------------------------------------------------------------
(* C34: in every reachable state, every regular-season match with two      *)
(* participants and week < current_week is reported (played or double      *)
(* forfeit), across week advancement, admin match creation, admin          *)
(* reassignment and reseeding.                                             *)
C34_PastWeeksReported ==
    \A m \in matches :
        (/\ m.playoff = 0
         /\ m.player1_id # NULL /\ m.player2_id # NULL
         /\ m.week # NULL
         /\ m.week < get_current_week(current_week))
            => m.reported = 1

----------------------------------------------------------------------------
(* C35: in every reachable state, if the round setting is r >= 0 then at   *)
(* least one playoff match with playoff_round = r exists, and if no        *)
(* playoff match exists the round setting is -1; this holds across         *)
(* createBracket, advancement, match deletion, player deletion and league  *)
(* reset.                                                                  *)
C35_RoundSettingHasMatches ==
    /\ current_playoff_round >= 0
          => RoundRows(matches, current_playoff_round) # {}
    /\ PlayoffMatches(matches) = {} => current_playoff_round = -1

----------------------------------------------------------------------------
(* C36: champion lookup never returns a player while the bracket is        *)
(* unfinished: whenever some playoff match with two participants is        *)
(* unreported or some playoff slot is still awaiting a winner,             *)
(* get_playoff_champion returns none; for a field with exactly one play-in *)
(* game the reported play-in winner is not returned as champion before the *)
(* Final exists and is reported.                                           *)

\* a slot of round 1 that a play-in winner has to fill is still empty
AwaitsWinner(ms, m) ==
    /\ m.playoff_round = 1
    /\ RoundRows(ms, 0) # {}
    /\ (m.player1_id = NULL \/ m.player2_id = NULL)

Unfinished(ms) ==
    \E m \in PlayoffMatches(ms) :
        \/ m.player1_id # NULL /\ m.player2_id # NULL /\ m.reported = 0
        \/ AwaitsWinner(ms, m)

C36_NoChampionWhileUnfinished ==
    Unfinished(matches) => get_playoff_champion(matches) = NULL

----------------------------------------------------------------------------
(* C37: for every set of players and reported matches, the computed        *)
(* standings satisfy: the sum of point_diff over all players is 0, the     *)
(* total number of wins equals the number of counted decisive              *)
(* (non-double-forfeit) matches, and the total number of losses equals the *)
(* total number of wins plus twice the number of counted double forfeits;  *)
(* a match is counted only when both participants are approved players.    *)

\* the matches the standings count: reported, with two participants who
\* are both approved players
CountedByStandings(ms, include_playoffs) ==
    {m \in ms : /\ m.reported = 1
                /\ (include_playoffs \/ m.playoff = 0)
                /\ m.player1_id \in DOMAIN players
                /\ m.player2_id \in DOMAIN players}

C37_Totals(rankings, counted) ==
    LET total(field(_)) == SumSeq([i \in DOMAIN rankings |-> field(rankings[i])])
        wins(row) == row.wins
        losses(row) == row.losses
        point_diff(row) == row.point_diff
        forfeits == {m \in counted : Truthy(m.double_forfeit)}
    IN  /\ total(point_diff) = 0
        /\ total(wins) = Cardinality(counted \ forfeits)
        /\ total(losses) = total(wins) + 2 * Cardinality(forfeits)

C37_StandingsBalance ==
    \A include_playoffs \in BOOLEAN :
        C37_Totals(calculate_rankings(matches, include_playoffs),
                   CountedByStandings(matches, include_playoffs))

\* the standings count a played match and a double forfeit, and the table
\* holds a reported bye that they do not count
C37_Witness ==
    /\ \E m \in CountedByStandings(matches, TRUE) : Truthy(m.double_forfeit)
    /\ \E m \in CountedByStandings(matches, TRUE) : ~Truthy(m.double_forfeit)
    /\ \E m \in matches : m.reported = 1 /\ m \notin CountedByStandings(matches, TRUE)
    /\ \E i \in DOMAIN calculate_rankings(matches, TRUE) :
          calculate_rankings(matches, TRUE)[i].point_diff # 0

----------------------------------------------------------------------------
(* C38: bracket creation depends only on players and regular-season        *)
(* results: two states that agree on approved players and regular-season   *)
(* matches but differ in their existing playoff matches, playoff results   *)
(* or round setting produce, after createBracket, identical playoff        *)
(* matches (participants, rounds, match_numbers) and the same round        *)
(* setting.                                                                *)

\* what the claim compares of the state createBracket leaves
BracketOf(made) ==
    [rows |-> {Slot(m) : m \in PlayoffMatches(made.ms)}, round |-> made.round]

\* Every state is compared with the state of the same players and
\* regular-season matches that has no playoff match: any two states that
\* agree on players and regular-season matches share that state.
C38_BracketFromRegularSeasonOnly ==
    LET same(made, plain) == BracketOf(made) = BracketOf(plain)
    IN  same(create_playoff_bracket(matches, next_match_id),
             create_playoff_bracket(delete_playoff_matches(matches), 1))

\* a table with regular-season results and playoff results in which the
\* standings with the playoffs order the players differently from the
\* regular-season standings
C38_Witness ==
    LET order(rankings) == [k \in DOMAIN rankings |-> rankings[k].player_id]
    IN  /\ \E m \in matches : m.playoff = 0 /\ m.reported = 1 /\ m.player2_id # NULL
        /\ \E m \in PlayoffMatches(matches) : m.reported = 1
        /\ current_playoff_round >= 0
        /\ order(calculate_rankings(matches, TRUE)) # SeedOrder

====
